---- MODULE Spec2Model ----
(***************************************************************************)
(* The jsx-dsl compiler: tokenize -> parse -> generate.                    *)
(*                                                                         *)
(* Source text, token values and generated code are strings; a character   *)
(* is a string of length one.  A number is carried as its decimal          *)
(* rendering (what String(n) gives), the only way the generator reads one. *)
(* The parser is a recursive-descent program; it is modelled as a machine  *)
(* with an explicit call stack so that every cursor step is one step.      *)
(***************************************************************************)
EXTENDS Integers, Sequences, FiniteSets, TLC

VARIABLES filePath, input, options, phase, error,
          charPosition, line, column, tokens,
          position, stack, ret, ast,
          code

vars == <<filePath, input, options, phase, error, charPosition, line, column, tokens,
          position, stack, ret, ast, code>>

lexVars == <<charPosition, line, column, tokens>>
parseVars == <<position, stack, ret, ast>>

(***************************************************************************)
(* Bounds of the model.                                                    *)
(***************************************************************************)
\* how many fragments a generated source text is put together from
MaxFragments == 3
\* how far past the end of the token array the cursor is followed
MaxOvershoot == 2
\* how many operands a generated expression chain has at most
MaxOperands == 2
\* how many declaration kinds a generated Component has at most
MaxKinds == 2
\* how many identifiers a chain of binary operators joins at most
MaxChain == 3
\* how many parts the base name of a file is put together from at most
MaxParts == 2

(***************************************************************************)
(* Strings.                                                                *)
(***************************************************************************)
Null == "<null>"
Undefined == "undefined"

CharAt(s, i) == IF i >= 1 /\ i <= Len(s) THEN SubSeq(s, i, i) ELSE ""

Slice(s, from) == IF from > Len(s) THEN "" ELSE SubSeq(s, from, Len(s))

\* least i >= from with sub at s[i..], 0 when there is none
IndexFrom(s, sub, from) ==
  LET found == {i \in from..(Len(s) - Len(sub) + 1) : SubSeq(s, i, i + Len(sub) - 1) = sub}
  IN IF found = {} THEN 0 ELSE CHOOSE i \in found : \A j \in found : i <= j

Includes(s, sub) == IndexFrom(s, sub, 1) # 0

RECURSIVE ReplaceAll(_, _, _)
\* String.prototype.replace with a global pattern that is a plain string
ReplaceAll(s, pat, to) ==
  LET i == IndexFrom(s, pat, 1) IN
  IF Len(pat) = 0 \/ i = 0 THEN s
  ELSE SubSeq(s, 1, i - 1) \o to \o ReplaceAll(Slice(s, i + Len(pat)), pat, to)

RECURSIVE Join(_, _)
\* Array.prototype.join, the array taken by halves
Join(seq, sep) ==
  IF Len(seq) = 0 THEN ""
  ELSE IF Len(seq) = 1 THEN seq[1]
  ELSE LET half == Len(seq) \div 2 IN
       Join(SubSeq(seq, 1, half), sep) \o sep \o Join(SubSeq(seq, half + 1, Len(seq)), sep)

RECURSIVE Repeat(_, _)
Repeat(s, n) == IF n <= 0 THEN "" ELSE s \o Repeat(s, n - 1)

RECURSIVE TrimStart(_)
TrimStart(s) ==
  IF Len(s) > 0 /\ CharAt(s, 1) \in {" ", "\t", "\n"} THEN TrimStart(Tail(s)) ELSE s

RECURSIVE TrimEnd(_)
TrimEnd(s) ==
  IF Len(s) > 0 /\ CharAt(s, Len(s)) \in {" ", "\t", "\n"}
  THEN TrimEnd(SubSeq(s, 1, Len(s) - 1)) ELSE s

Trim(s) == TrimEnd(TrimStart(s))

SeqIncludes(seq, x) == \E i \in 1..Len(seq) : seq[i] = x

LowerCase == "abcdefghijklmnopqrstuvwxyz"
UpperCase == "ABCDEFGHIJKLMNOPQRSTUVWXYZ"
Digits == "0123456789"

IsDigit(c) == Len(c) = 1 /\ Includes(Digits, c)
IsLetter(c) == Len(c) = 1 /\ (Includes(LowerCase, c) \/ Includes(UpperCase, c))

IsIdentifierStart(c) == IsLetter(c) \/ c = "_"

toUpperCase(c) ==
  LET i == IndexFrom(LowerCase, c, 1) IN
  IF Len(c) = 1 /\ i # 0 THEN CharAt(UpperCase, i) ELSE c

(***************************************************************************)
(* The tokenizer (tokenizer-ts.js).  One step is one iteration of its      *)
(* main loop.  A cursor of the tokenizer is [position, line, column].      *)
(***************************************************************************)
lexCursor == [position |-> charPosition, line |-> line, column |-> column]

\* peek(offset) at cursor c: input[position + offset] || ''
peekChar(c, offset) == CharAt(input, c.position + offset + 1)

\* an advance() that counts the line and the column and leaves the position
advanceCharInPlace(c) ==
  LET char == CharAt(input, c.position + 1) IN
  [position |-> c.position,
   line     |-> IF char = "\n" THEN c.line + 1 ELSE c.line,
   column   |-> IF char = "\n" THEN 1 ELSE c.column + 1]

\* advance() at cursor c: the cursor after it
advanceChar(c) ==
  LET char == CharAt(input, c.position + 1) IN
  [position |-> c.position + 1,
   line     |-> IF char = "\n" THEN c.line + 1 ELSE c.line,
   column   |-> IF char = "\n" THEN 1 ELSE c.column + 1]

\* what advance() returns at cursor c when it is appended to a string
advancedChar(c) ==
  IF c.position < Len(input) THEN CharAt(input, c.position + 1) ELSE Undefined

\* addToken(type, value) at cursor c; length is value?.length
addToken(c, type, value, length) ==
  [type |-> type, value |-> value, line |-> c.line,
   column |-> c.column - (IF length = 0 THEN 1 ELSE length)]

\* the tokenizer moves to cursor c having pushed the tokens toks
LexStep(c, toks) ==
  /\ charPosition' = c.position
  /\ line' = c.line
  /\ column' = c.column
  /\ tokens' = tokens \o toks
  /\ UNCHANGED <<filePath, input, options, phase, error, parseVars, code>>

Lexing == phase = "tokenize" /\ charPosition < Len(input)

\* the one-character tokens, in the order of the source's cascade
SymbolChars == "@$%!?|&*/.,(){}[]<>"
SymbolTypes ==
  <<"STATE", "EFFECT", "MEMO", "EVENT", "QUESTION", "PIPE", "AMPERSAND",
    "MULTIPLY", "SLASH", "DOT", "COMMA", "LPAREN", "RPAREN", "LBRACE",
    "RBRACE", "LBRACKET", "RBRACKET", "LT", "GT">>

LexWhitespace ==
  /\ Lexing
  /\ peekChar(lexCursor, 0) \in {" ", "\t"}
  /\ LexStep(advanceChar(lexCursor), <<>>)

LexNewline ==
  /\ Lexing
  /\ peekChar(lexCursor, 0) = "\n"
  /\ LexStep(advanceChar(lexCursor), <<addToken(lexCursor, "NEWLINE", Null, 1)>>)

LexSymbol ==
  /\ Lexing
  /\ Includes(SymbolChars, peekChar(lexCursor, 0))
  /\ LET c == advanceChar(lexCursor)
         type == SymbolTypes[IndexFrom(SymbolChars, peekChar(lexCursor, 0), 1)]
     IN LexStep(c, <<addToken(c, type, Null, 1)>>)

LexColon ==
  /\ Lexing
  /\ peekChar(lexCursor, 0) = ":"
  /\ LET c1 == advanceChar(lexCursor)
         c2 == advanceChar(c1)
     IN IF peekChar(c1, 0) = ":"
        THEN LexStep(c2, <<addToken(c2, "COLON_TYPE", Null, 1)>>)
        ELSE LexStep(c1, <<addToken(c1, "PROP", Null, 1)>>)

LexPlus ==
  /\ Lexing
  /\ peekChar(lexCursor, 0) = "+"
  /\ LET c1 == advanceChar(lexCursor)
         c2 == advanceChar(c1)
     IN IF peekChar(c1, 0) = "+"
        THEN LexStep(c2, <<addToken(c2, "INCREMENT", Null, 1)>>)
        ELSE IF peekChar(c1, 0) = "="
        THEN LexStep(c2, <<addToken(c2, "PLUS_ASSIGN", Null, 1)>>)
        ELSE LexStep(c1, <<addToken(c1, "PLUS", Null, 1)>>)

LexMinus ==
  /\ Lexing
  /\ peekChar(lexCursor, 0) = "-"
  /\ LET c1 == advanceChar(lexCursor)
         c2 == advanceChar(c1)
     IN IF peekChar(c1, 0) = "-"
        THEN LexStep(c2, <<addToken(c2, "DECREMENT", Null, 1)>>)
        ELSE LexStep(c1, <<addToken(c1, "MINUS", Null, 1)>>)

\* char === '=' && peek() === '>' compares the current character with itself
\* (peek() is input[position], which is char), so the ARROW branch is taken
\* only if a character equals both '=' and '>'
LexAssign ==
  /\ Lexing
  /\ peekChar(lexCursor, 0) = "="
  /\ LET c1 == advanceChar(lexCursor)
         c2 == advanceChar(c1)
     IN IF peekChar(lexCursor, 0) = ">"
        THEN LexStep(c2, <<addToken(c2, "ARROW", Null, 1)>>)
        ELSE LexStep(c1, <<addToken(c1, "ASSIGN", Null, 1)>>)

RECURSIVE scanString(_, _, _)
\* the loop of a string literal from cursor c: [cursor, value] at its exit
scanString(c, quote, value) ==
  IF peekChar(c, 0) # "" /\ peekChar(c, 0) # quote
  THEN LET c1 == IF peekChar(c, 0) = "\\" THEN advanceChar(c) ELSE c
       IN scanString(advanceChar(c1), quote, value \o advancedChar(c1))
  ELSE [cursor |-> c, value |-> value]

LexString ==
  /\ Lexing
  /\ peekChar(lexCursor, 0) \in {"\"", "'"}
  /\ LET s == scanString(advanceChar(lexCursor), peekChar(lexCursor, 0), "")
         c == advanceChar(s.cursor)
     IN LexStep(c, <<addToken(c, "STRING", s.value, Len(s.value))>>)

RECURSIVE scanWhile(_, _, _, _)
\* while (class.test(peek())) value += advance(), the class given as its characters
scanWhile(c, first, rest, value) ==
  LET ch == peekChar(c, 0) IN
  IF Len(ch) = 1 /\ (IsDigit(ch) \/ (first /\ ch = ".") \/ (rest /\ (IsLetter(ch) \/ ch = "_")))
  THEN scanWhile(advanceChar(c), first, rest, value \o ch)
  ELSE [cursor |-> c, value |-> value]

RECURSIVE stripLeadingZeros(_)
stripLeadingZeros(s) ==
  IF Len(s) > 1 /\ CharAt(s, 1) = "0" THEN stripLeadingZeros(Tail(s)) ELSE s

RECURSIVE stripTrailingZeros(_)
stripTrailingZeros(s) ==
  IF Len(s) > 0 /\ CharAt(s, Len(s)) = "0"
  THEN stripTrailingZeros(SubSeq(s, 1, Len(s) - 1)) ELSE s

\* String(parseFloat(s)) for s a run of digits and dots that starts with a digit:
\* the digits before the first dot and the digits between the first and second
DigitsBefore(s, dot) == IF dot = 0 THEN s ELSE SubSeq(s, 1, dot - 1)

parseFloat(s) ==
  LET dot1 == IndexFrom(s, ".", 1)
      intPart == stripLeadingZeros(DigitsBefore(s, dot1))
      rest == IF dot1 = 0 THEN "" ELSE Slice(s, dot1 + 1)
      frac == stripTrailingZeros(DigitsBefore(rest, IndexFrom(rest, ".", 1)))
  IN IF frac = "" THEN intPart ELSE intPart \o "." \o frac

LexNumber ==
  /\ Lexing
  /\ IsDigit(peekChar(lexCursor, 0))
  /\ LET s == scanWhile(lexCursor, TRUE, FALSE, "")
     IN LexStep(s.cursor, <<addToken(s.cursor, "NUMBER", parseFloat(s.value), 0)>>)

LexIdentifier ==
  /\ Lexing
  /\ IsIdentifierStart(peekChar(lexCursor, 0))
  /\ LET s == scanWhile(advanceChar(lexCursor), FALSE, TRUE, peekChar(lexCursor, 0))
     IN LexStep(s.cursor, <<addToken(s.cursor, "IDENTIFIER", s.value, Len(s.value))>>)

Recognized(ch) ==
  \/ ch \in {" ", "\t", "\n", ":", "+", "-", "=", "\"", "'", "_"}
  \/ Includes(SymbolChars, ch)
  \/ IsDigit(ch)
  \/ IsLetter(ch)

\* a tokenizer that skips the characters it has no branch for, as the
\* parser skips the tokens it does not know
LexSkipUnexpected ==
  /\ Lexing
  /\ ~Recognized(peekChar(lexCursor, 0))
  /\ LexStep(advanceChar(lexCursor), <<>>)

LexError ==
  /\ Lexing
  /\ ~Recognized(peekChar(lexCursor, 0))
  /\ phase' = "failed"
  /\ error' = "Unexpected character: " \o peekChar(lexCursor, 0) \o " at line "
               \o ToString(line) \o ", column " \o ToString(column)
  /\ UNCHANGED <<filePath, input, options, lexVars, parseVars, code>>

\* the loop ends: the EOF token is added and parse(tokens) is entered
LexEnd ==
  /\ phase = "tokenize"
  /\ charPosition >= Len(input)
  /\ tokens' = Append(tokens, addToken(lexCursor, "EOF", Null, 1))
  /\ phase' = "parse"
  /\ UNCHANGED <<filePath, input, options, error, charPosition, line, column, parseVars, code>>

(***************************************************************************)
(* The parser (parse in index.js).  A frame of the call stack is           *)
(* [fn, pc, v]: the function, the place in it, and its local variables.    *)
(* The top of the stack is its head.  ret holds the value last returned.   *)
(***************************************************************************)
NullNode == [type |-> "Null"]

emptyAst ==
  [type |-> "Component", props |-> <<>>, states |-> <<>>, reducers |-> <<>>,
   contexts |-> <<>>, effects |-> <<>>, memos |-> <<>>, events |-> <<>>,
   jsx |-> NullNode]

MODIFIER_REDUCER == "reducer"

\* peek(offset)?.type and peek(offset)?.value
peekType(offset) ==
  IF position + offset < Len(tokens) THEN tokens[position + offset + 1].type ELSE Undefined
peekValue(offset) ==
  IF position + offset < Len(tokens) THEN tokens[position + offset + 1].value ELSE Undefined
\* the line of the token before the one asked for
lineOfPrevious(offset) ==
  IF position + offset >= 1 /\ position + offset <= Len(tokens)
  THEN ToString(tokens[position + offset].line)
  ELSE Undefined

peekLine(offset) ==
  IF position + offset < Len(tokens) THEN ToString(tokens[position + offset + 1].line)
  ELSE Undefined

isAtEnd == position >= Len(tokens) \/ peekType(0) = "EOF"

top == Head(stack)
Frame(fn, pc, v) == [fn |-> fn, pc |-> pc, v |-> v]
NoLocals == [none |-> TRUE]

In(fn) == phase = "parse" /\ stack # <<>> /\ top.fn = fn

\* a parser that backs up: a step that consumes nothing steps back one token
advancedBacktracking(adv) ==
  IF adv = 0 /\ position > 0 THEN position - 1
  ELSE IF position + adv > Len(tokens) + MaxOvershoot THEN Len(tokens)
  ELSE position + adv

\* position after adv calls of advance().  tokens[position] is undefined at every
\* position from Len(tokens) on and the parser reads the cursor nowhere else,
\* so the positions past the end are counted modulo MaxOvershoot + 1.
advanced(adv) ==
  IF position + adv > Len(tokens) + MaxOvershoot THEN Len(tokens) ELSE position + adv

\* one step of the parser: the stack becomes stk, the cursor advances by adv
ParseStep(stk, adv, r, a) ==
  /\ position' = advanced(adv)
  /\ stack' = stk
  /\ ret' = r
  /\ ast' = a
  /\ UNCHANGED <<filePath, input, options, phase, error, lexVars, code>>

\* throw new Error(msg), the cursor having advanced by adv
Throw(msg, adv) ==
  /\ phase' = "failed"
  /\ error' = msg
  /\ position' = advanced(adv)
  /\ UNCHANGED <<filePath, input, options, lexVars, stack, ret, ast, code>>

\* the running function goes to pc with locals v
Goto(pc, v, adv) == ParseStep(<<Frame(top.fn, pc, v)>> \o Tail(stack), adv, ret, ast)
\* the running function calls callee (the frames it pushes) and resumes at pc
Call(callee, pc, v, adv) ==
  ParseStep(callee \o <<Frame(top.fn, pc, v)>> \o Tail(stack), adv, ret, ast)
\* a return that leaves the token it has read under the cursor
ReturnWithoutAdvancing(value, adv, a) == ParseStep(Tail(stack), 0, value, a)

\* the running function returns value, having changed the Component to a
Return(value, adv, a) == ParseStep(Tail(stack), adv, value, a)

\* consume(type, message): throws unless the next token has the type
consume(type, message, then) ==
  IF peekType(0) = type THEN then
  ELSE Throw(IF message # "" THEN message
             ELSE "Expected " \o type \o " but got " \o peekType(0), 0)

\* if (peek()?.type === COMMA) advance()
commaWidth == IF peekType(0) = "COMMA" THEN 1 ELSE 0

enterExpression == <<Frame("parseExpression", "start", NoLocals)>>
enterTypeAnnotation == <<Frame("parseTypeAnnotation", "start", NoLocals)>>
enterSkipNewlines == <<Frame("skipNewlines", "loop", NoLocals)>>
enterJSXElement == <<Frame("parseJSXElement", "start", NoLocals)>>
\* parseType() starts by calling parsePrimaryType()
enterType ==
  <<Frame("parsePrimaryType", "start", NoLocals),
    Frame("parseType", "loop", [types |-> <<>>])>>

skipNewlines ==
  /\ In("skipNewlines")
  /\ IF peekType(0) = "NEWLINE" THEN Goto("loop", top.v, 1)
     ELSE Return(ret, 0, ast)

parseTypeAnnotation ==
  /\ In("parseTypeAnnotation")
  /\ IF peekType(0) # "COLON_TYPE" THEN Return(NullNode, 0, ast)
     ELSE ParseStep(enterType \o Tail(stack), 1, ret, ast)

parseType ==
  /\ In("parseType")
  /\ LET types == Append(top.v.types, ret) IN
     IF peekType(0) = "PIPE"
     THEN Call(<<Frame("parsePrimaryType", "start", NoLocals)>>, "loop",
               [types |-> types], 1)
     ELSE Return(IF Len(types) = 1 THEN types[1]
                 ELSE [type |-> "UnionType", types |-> types], 0, ast)

parsePrimaryType ==
  /\ In("parsePrimaryType")
  /\ LET v == top.v IN
     CASE top.pc = "start" ->
            IF peekType(0) = "IDENTIFIER"
            THEN Goto("afterName", [name |-> peekValue(0), typeParams |-> <<>>], 1)
            ELSE Throw("Expected type but got " \o peekType(0), 0)
       [] top.pc = "afterName" ->
            IF peekType(0) = "LBRACKET" THEN Goto("arrayClose", v, 1)
            ELSE IF peekType(0) = "LT" THEN Call(enterType, "generic", v, 1)
            ELSE Return([type |-> "SimpleType", name |-> v.name], 0, ast)
       [] top.pc = "arrayClose" ->
            consume("RBRACKET", "",
                    Return([type |-> "ArrayType", elementType |-> v.name], 1, ast))
       [] top.pc = "generic" ->
            LET genericTypes == Append(v.typeParams, ret) IN
            IF peekType(0) = "COMMA"
            THEN Call(enterType, "generic", [v EXCEPT !.typeParams = genericTypes], 1)
            ELSE consume("GT", "",
                         Return([type |-> "GenericType", name |-> v.name,
                                 typeParams |-> genericTypes], 1, ast))

parseProp ==
  /\ In("parseProp")
  /\ CASE top.pc = "start" -> consume("PROP", "", Goto("name", NoLocals, 1))
       [] top.pc = "name" ->
            consume("IDENTIFIER", "Expected prop name",
                    Call(enterTypeAnnotation, "push", [name |-> peekValue(0)], 1))
       [] top.pc = "push" ->
            Return(ret, 0, [ast EXCEPT !.props =
                              Append(@, [name |-> top.v.name, type |-> ret])])

parseState ==
  /\ In("parseState")
  /\ LET v == top.v IN
     CASE top.pc = "start" -> consume("STATE", "", Goto("name", NoLocals, 1))
       [] top.pc = "name" ->
            consume("IDENTIFIER", "Expected state name",
                    Goto("modifier", [name |-> peekValue(0), type |-> NullNode], 1))
       [] top.pc = "modifier" ->
            IF /\ peekType(0) = "PROP"
               /\ peekType(1) = "IDENTIFIER"
               /\ peekValue(1) = MODIFIER_REDUCER
            THEN Goto("reducerKeyword", v, 1)
            ELSE Call(enterTypeAnnotation, "assign", v, 0)
       [] top.pc = "reducerKeyword" -> Goto("reducerAssign", v, 1)
       [] top.pc = "reducerAssign" ->
            consume("ASSIGN", "",
                    Call(<<Frame("parseReducerValue", "start", NoLocals)>>,
                         "pushReducer", v, 1))
       [] top.pc = "pushReducer" ->
            Return(ret, 0, [ast EXCEPT !.reducers =
                              Append(@, [name |-> v.name,
                                         initialValue |-> ret.initialValue,
                                         actions |-> ret.actions])])
       [] top.pc = "assign" ->
            consume("ASSIGN", "",
                    Call(enterExpression, "pushState", [v EXCEPT !.type = ret], 1))
       [] top.pc = "pushState" ->
            Return(ret, 0, [ast EXCEPT !.states =
                              Append(@, [name |-> v.name, type |-> v.type,
                                         initialValue |-> ret])])

parseReducerValue ==
  /\ In("parseReducerValue")
  /\ LET v == top.v IN
     CASE top.pc = "start" ->
            IF peekType(0) # "LBRACE" THEN Call(enterExpression, "simple", v, 0)
            ELSE Call(enterExpression, "comma", v, 1)
       [] top.pc = "simple" ->
            Return([initialValue |-> ret, actions |-> <<>>], 0, ast)
       [] top.pc = "comma" ->
            consume("COMMA", "",
                    Goto("actionsOpen", [initialValue |-> ret, actions |-> <<>>,
                                         actionName |-> ""], 1))
       [] top.pc = "actionsOpen" -> consume("LBRACE", "", Goto("actionLoop", v, 1))
       [] top.pc = "actionLoop" ->
            IF peekType(0) # "RBRACE"
            THEN consume("IDENTIFIER", "Expected action name",
                         Goto("actionColon", [v EXCEPT !.actionName = peekValue(0)], 1))
            ELSE Goto("close", v, 1)
       [] top.pc = "actionColon" ->
            consume("PROP", "", Call(enterExpression, "actionPush", v, 1))
       [] top.pc = "actionPush" ->
            Goto("actionLoop",
                 [v EXCEPT !.actions = Append(@, [name |-> v.actionName, handler |-> ret])],
                 commaWidth)
       [] top.pc = "close" ->
            consume("RBRACE", "",
                    Return([initialValue |-> v.initialValue, actions |-> v.actions],
                           1, ast))

parseEffect ==
  /\ In("parseEffect")
  /\ LET v == top.v IN
     CASE top.pc = "start" -> consume("EFFECT", "", Goto("name", NoLocals, 1))
       [] top.pc = "name" ->
            consume("IDENTIFIER", "Expected function name",
                    Goto("lparen", [functionName |-> peekValue(0), args |-> <<>>], 1))
       [] top.pc = "lparen" -> consume("LPAREN", "", Goto("args", v, 1))
       [] top.pc = "args" ->
            IF peekType(0) # "RPAREN" THEN Call(enterExpression, "argPush", v, 0)
            ELSE Return(ret, 1, [ast EXCEPT !.effects =
                                   Append(@, [functionName |-> v.functionName,
                                              args |-> v.args])])
       [] top.pc = "argPush" ->
            Goto("args", [v EXCEPT !.args = Append(@, ret)], commaWidth)

parseMemo ==
  /\ In("parseMemo")
  /\ LET v == top.v IN
     CASE top.pc = "start" -> consume("MEMO", "", Goto("name", NoLocals, 1))
       [] top.pc = "name" ->
            consume("IDENTIFIER", "Expected memo name",
                    Call(enterTypeAnnotation, "assign",
                         [name |-> peekValue(0), type |-> NullNode], 1))
       [] top.pc = "assign" ->
            consume("ASSIGN", "",
                    Call(enterExpression, "push", [v EXCEPT !.type = ret], 1))
       [] top.pc = "push" ->
            Return(ret, 0, [ast EXCEPT !.memos =
                              Append(@, [name |-> v.name, type |-> v.type,
                                         value |-> ret])])

\* ast.events[name] = handler on an object that keeps its keys in insertion order
setEvent(events, name, handler) ==
  IF \E i \in 1..Len(events) : events[i].name = name
  THEN [i \in 1..Len(events) |->
          IF events[i].name = name THEN [name |-> name, handler |-> handler]
          ELSE events[i]]
  ELSE Append(events, [name |-> name, handler |-> handler])

parseEvent ==
  /\ In("parseEvent")
  /\ LET v == top.v IN
     CASE top.pc = "start" -> consume("EVENT", "", Goto("name", NoLocals, 1))
       [] top.pc = "name" ->
            consume("IDENTIFIER", "Expected event name",
                    Goto("assign", [name |-> peekValue(0)], 1))
       [] top.pc = "assign" ->
            consume("ASSIGN", "", Call(enterExpression, "push", v, 1))
       [] top.pc = "push" ->
            Return(ret, 0, [ast EXCEPT !.events = setEvent(@, v.name, ret)])

BinaryOperators == {"PLUS", "MINUS", "MULTIPLY", "SLASH"}

\* the four branches of the binary operators all writing the operator of the first
operatorTextOfFirst(type) == "+"

operatorText(type) ==
  CASE type = "PLUS" -> "+" [] type = "MINUS" -> "-"
    [] type = "MULTIPLY" -> "*" [] type = "SLASH" -> "/"

Identifier(name) == [type |-> "Identifier", name |-> name]
Literal(value) == [type |-> "Literal", value |-> value]

parseExpression ==
  /\ In("parseExpression")
  /\ LET v == top.v
         t == peekType(0)
     IN
     CASE top.pc = "start" ->
            IF t = "NUMBER" THEN Return(Literal(peekValue(0)), 1, ast)
            ELSE IF t = "STRING"
            THEN Return(Literal("\"" \o peekValue(0) \o "\""), 1, ast)
            ELSE IF t = "IDENTIFIER"
            THEN Goto("afterName", [name |-> peekValue(0), operator |-> "",
                                    property |-> "", list |-> <<>>], 1)
            ELSE IF t = "LBRACKET"
            THEN Goto("elements", [name |-> "", operator |-> "", property |-> "",
                                   list |-> <<>>], 1)
            ELSE Throw("Unexpected token in expression: " \o t, 0)
       [] top.pc = "afterName" ->
            IF t = "ARROW" THEN Call(enterExpression, "arrowBody", v, 1)
            ELSE IF t = "INCREMENT"
            THEN Return([type |-> "Update", target |-> v.name, operator |-> "++"], 1, ast)
            ELSE IF t = "DECREMENT"
            THEN Return([type |-> "Update", target |-> v.name, operator |-> "--"], 1, ast)
            ELSE IF t = "PLUS_ASSIGN" THEN Call(enterExpression, "updateValue", v, 1)
            ELSE IF t \in BinaryOperators
            THEN Call(enterExpression, "right", [v EXCEPT !.operator = operatorText(t)], 1)
            ELSE IF t = "DOT" THEN Goto("property", v, 1)
            ELSE Return(Identifier(v.name), 0, ast)
       [] top.pc = "arrowBody" ->
            Return([type |-> "ArrowFunction", params |-> <<v.name>>, body |-> ret], 0, ast)
       [] top.pc = "updateValue" ->
            Return([type |-> "Update", target |-> v.name, operator |-> "+=",
                    value |-> ret], 0, ast)
       [] top.pc = "right" ->
            Return([type |-> "BinaryOp", operator |-> v.operator,
                    left |-> Identifier(v.name), right |-> ret], 0, ast)
       [] top.pc = "property" ->
            consume("IDENTIFIER", "Expected property or method name",
                    Goto("afterProperty", [v EXCEPT !.property = peekValue(0)], 1))
       [] top.pc = "afterProperty" ->
            IF t = "LPAREN" THEN Goto("args", v, 1)
            ELSE Return([type |-> "PropertyAccess", object |-> v.name,
                         property |-> v.property], 0, ast)
       [] top.pc = "args" ->
            IF t # "RPAREN" THEN Call(enterExpression, "argPush", v, 0)
            ELSE Return([type |-> "MethodCall", object |-> v.name,
                         method |-> v.property, args |-> v.list], 1, ast)
       [] top.pc = "argPush" ->
            Goto("args", [v EXCEPT !.list = Append(@, ret)], commaWidth)
       [] top.pc = "elements" ->
            IF t # "RBRACKET" THEN Call(enterExpression, "elementPush", v, 0)
            ELSE Return([type |-> "Array", elements |-> v.list], 1, ast)
       [] top.pc = "elementPush" ->
            Goto("elements", [v EXCEPT !.list = Append(@, ret)], commaWidth)

parseJSX ==
  /\ In("parseJSX")
  /\ LET elements == top.v.elements IN
     CASE top.pc = "loop" ->
            IF ~isAtEnd /\ peekType(0) = "LT" THEN Call(enterJSXElement, "push", top.v, 0)
            ELSE Return(IF Len(elements) = 1 THEN elements[1]
                        ELSE [type |-> "JSXFragment", children |-> elements], 0, ast)
       [] top.pc = "push" ->
            Call(enterSkipNewlines, "loop", [elements |-> Append(elements, ret)], 0)


JSXText(value) == [type |-> "JSXText", value |-> value]

\* a parser that takes any closing name, as parseEachLoop does for </each>
closingTagUnchecked(closingTag, tagName) == TRUE

\* closingTag !== tagName decides the mismatch
closingTagMatches(closingTag, tagName) == closingTag = tagName

parseJSXElement ==
  /\ In("parseJSXElement")
  /\ LET v == top.v
         t == peekType(0)
         pushAttribute(name, value) ==
           [v EXCEPT !.attributes = Append(@, [name |-> name, value |-> value])]
         pushChild(child) == [v EXCEPT !.children = Append(@, child)]
     IN
     CASE top.pc = "start" -> consume("LT", "", Goto("tagName", v, 1))
       [] top.pc = "tagName" ->
            consume("IDENTIFIER", "Expected tag name",
                    Goto("attributes", [tagName |-> peekValue(0), attributes |-> <<>>,
                                        children |-> <<>>, name |-> ""], 1))
       [] top.pc = "attributes" ->
            IF t = "SLASH" THEN Goto("selfClose", v, 1)
            ELSE IF t = "GT" THEN Goto("children", v, 1)
            ELSE IF t = "STATE" /\ peekType(1) = "IDENTIFIER" THEN Goto("eventName", v, 1)
            ELSE IF t = "IDENTIFIER"
            THEN Goto("afterName", [v EXCEPT !.name = peekValue(0)], 1)
            ELSE Goto("attributes", v, 1)
       [] top.pc = "eventName" ->
            Goto("eventAssign", [v EXCEPT !.name = peekValue(0)], 1)
       [] top.pc = "eventAssign" -> consume("ASSIGN", "", Goto("eventHandler", v, 1))
       [] top.pc = "eventHandler" ->
            consume("IDENTIFIER", "",
                    Goto("attributes",
                         pushAttribute(v.name, [type |-> "EventHandler",
                                                handler |-> peekValue(0)]), 1))
       [] top.pc = "afterName" ->
            IF t = "ASSIGN" THEN Goto("value", v, 1)
            ELSE Goto("attributes", pushAttribute(v.name, Literal("true")), 0)
       [] top.pc = "value" ->
            IF t = "LBRACE" THEN Call(enterExpression, "valueClose", v, 1)
            ELSE Call(enterExpression, "valuePush", v, 0)
       [] top.pc = "valueClose" ->
            consume("RBRACE", "", Goto("attributes", pushAttribute(v.name, ret), 1))
       [] top.pc = "valuePush" -> Goto("attributes", pushAttribute(v.name, ret), 0)
       [] top.pc = "selfClose" ->
            consume("GT", "",
                    Return([type |-> "JSXElement", tagName |-> v.tagName,
                            attributes |-> v.attributes, children |-> <<>>], 1, ast))
       [] top.pc = "children" ->
            IF t = "LT" /\ peekType(1) = "SLASH" THEN Goto("closeSlash", v, 1)
            ELSE IF t = "LT"
            THEN IF peekType(1) = "IDENTIFIER" /\ peekValue(1) = "each"
                 THEN Call(<<Frame("parseEachLoop", "start", NoLocals)>>, "childPush", v, 0)
                 ELSE Call(enterJSXElement, "childPush", v, 0)
            ELSE IF t = "LBRACE" THEN Call(enterExpression, "expressionClose", v, 1)
            ELSE IF t \in {"IDENTIFIER", "STRING", "NUMBER"}
            THEN Goto("children", pushChild(JSXText(peekValue(0))), 1)
            ELSE IF t = "MINUS" THEN Goto("children", pushChild(JSXText("-")), 1)
            ELSE IF t = "PLUS" THEN Goto("children", pushChild(JSXText("+")), 1)
            ELSE IF t = "PROP" THEN Goto("children", pushChild(JSXText(":")), 1)
            ELSE Goto("children", v, 1)
       [] top.pc = "expressionClose" ->
            consume("RBRACE", "",
                    Goto("children",
                         pushChild([type |-> "JSXExpression", expression |-> ret]), 1))
       [] top.pc = "childPush" -> Goto("children", pushChild(ret), 0)
       [] top.pc = "closeSlash" -> consume("SLASH", "", Goto("closeName", v, 1))
       [] top.pc = "closeName" ->
            consume("IDENTIFIER", "",
                    IF closingTagMatches(peekValue(0), v.tagName)
                    THEN Goto("closeGT", v, 1)
                    ELSE Throw("Mismatched closing tag: expected " \o v.tagName
                               \o " but got " \o peekValue(0), 1))
       [] top.pc = "closeGT" ->
            consume("GT", "",
                    Return([type |-> "JSXElement", tagName |-> v.tagName,
                            attributes |-> v.attributes, children |-> v.children],
                           1, ast))

parseEachLoop ==
  /\ In("parseEachLoop")
  /\ LET v == top.v IN
     CASE top.pc = "start" -> consume("LT", "", Goto("each", v, 1))
       [] top.pc = "each" ->
            consume("IDENTIFIER", "",
                    IF peekValue(0) # "each" THEN Throw("Expected \"each\" in loop", 1)
                    ELSE Goto("item", v, 1))
       [] top.pc = "item" ->
            consume("IDENTIFIER", "Expected item variable",
                    Goto("itemType", [item |-> peekValue(0), itemType |-> NullNode,
                                      list |-> "", template |-> NullNode], 1))
       [] top.pc = "itemType" ->
            IF peekType(0) = "COLON_TYPE" THEN Call(enterTypeAnnotation, "in", v, 0)
            ELSE ParseStep(<<Frame("parseEachLoop", "in", v)>> \o Tail(stack), 0,
                           NullNode, ast)
       [] top.pc = "in" ->
            consume("IDENTIFIER", "",
                    IF peekValue(0) # "in" THEN Throw("Expected \"in\" in each loop", 1)
                    ELSE Goto("list", [v EXCEPT !.itemType = ret], 1))
       [] top.pc = "list" ->
            consume("IDENTIFIER", "Expected list variable",
                    Goto("gt", [v EXCEPT !.list = peekValue(0)], 1))
       [] top.pc = "gt" -> consume("GT", "", Call(enterSkipNewlines, "template", v, 1))
       [] top.pc = "template" -> Call(enterJSXElement, "afterTemplate", v, 0)
       [] top.pc = "afterTemplate" ->
            Call(enterSkipNewlines, "closeLT", [v EXCEPT !.template = ret], 0)
       [] top.pc = "closeLT" -> consume("LT", "", Goto("closeSlash", v, 1))
       [] top.pc = "closeSlash" -> consume("SLASH", "", Goto("closeName", v, 1))
       [] top.pc = "closeName" -> consume("IDENTIFIER", "", Goto("closeGT", v, 1))
       [] top.pc = "closeGT" ->
            consume("GT", "",
                    Return([type |-> "EachLoop", item |-> v.item, itemType |-> v.itemType,
                            list |-> v.list, template |-> v.template], 1, ast))

\* return ast: the Component goes to the generator
ParseReturn ==
  /\ phase' = "generate"
  /\ stack' = <<>>
  /\ UNCHANGED <<filePath, input, options, error, lexVars, position, ret, ast, code>>

\* the statement a token type at a statement start dispatches to; the case
\* TOKEN_TYPES.CONTEXT of the switch is no type of a token (the tokenizer's
\* table has no CONTEXT), so it selects nothing
Statements ==
  ("PROP" :> "parseProp") @@ ("STATE" :> "parseState") @@ ("EFFECT" :> "parseEffect")
  @@ ("MEMO" :> "parseMemo") @@ ("EVENT" :> "parseEvent")

\* the main loop of parse
parse ==
  /\ In("parse")
  /\ CASE top.pc = "loop" ->
            IF isAtEnd THEN ParseReturn
            ELSE Call(enterSkipNewlines, "statement", top.v, 0)
       [] top.pc = "statement" ->
            IF isAtEnd THEN ParseReturn
            ELSE IF peekType(0) \in DOMAIN Statements
            THEN Call(<<Frame(Statements[peekType(0)], "start", NoLocals)>>,
                      "next", top.v, 0)
            ELSE IF peekType(0) = "LT"
            THEN Call(<<Frame("parseJSX", "loop", [elements |-> <<>>])>>, "jsx", top.v, 0)
            ELSE Throw("Unexpected token: " \o peekType(0) \o " at line " \o peekLine(0), 0)
       [] top.pc = "jsx" ->
            ParseStep(enterSkipNewlines \o <<Frame("parse", "loop", top.v)>> \o Tail(stack),
                      0, ret, [ast EXCEPT !.jsx = ret])
       [] top.pc = "next" -> Call(enterSkipNewlines, "loop", top.v, 0)

(***************************************************************************)
(* The generators (generator-ts.js: generateTypeScript, and generate, the  *)
(* plain generator).  The helpers the two share by name take the flag      *)
(* typed: TRUE for generateTypeScript's copy, FALSE for generate's.        *)
(***************************************************************************)
\* a collection read from its last entry to its first
CollectionReversed(a, field) ==
  IF field \in DOMAIN a THEN [i \in 1..Len(a[field]) |-> a[field][Len(a[field]) + 1 - i]]
  ELSE <<>>

\* ast.<field> || [] : a Component of the parser has no field for the
\* declaration kinds the parser does not know
Collection(a, field) == IF field \in DOMAIN a THEN a[field] ELSE <<>>

Map(seq, Op(_)) == [i \in 1..Len(seq) |-> Op(seq[i])]

RECURSIVE Flatten(_)
Flatten(seqs) == IF Len(seqs) = 0 THEN <<>> ELSE Head(seqs) \o Flatten(Tail(seqs))

\* the properties every object literal inherits from Object.prototype
ObjectPrototypeFunctions ==
  {"constructor", "toString", "valueOf", "hasOwnProperty", "isPrototypeOf",
   "propertyIsEnumerable", "toLocaleString"}

\* table[key] for an object literal table, Undefined when there is none
objectLookup(table, key) ==
  IF key \in DOMAIN table THEN table[key]
  ELSE IF key \in ObjectPrototypeFunctions
  THEN "function " \o (IF key = "constructor" THEN "Object" ELSE key)
       \o "() { [native code] }"
  ELSE IF key = "__proto__" THEN "[object Object]"
  ELSE Undefined

\* table[key] || otherwise
lookupOr(table, key, otherwise) ==
  IF objectLookup(table, key) = Undefined THEN otherwise ELSE objectLookup(table, key)

RECURSIVE toUpperCaseAll(_)
\* str.toUpperCase(): a capitalize that does not stop at the first character
toUpperCaseAll(str) ==
  IF Len(str) = 0 THEN "" ELSE toUpperCase(CharAt(str, 1)) \o toUpperCaseAll(Tail(str))

capitalize(str) == toUpperCase(CharAt(str, 1)) \o Slice(str, 2)

typeMap == ("str" :> "string") @@ ("num" :> "number") @@ ("bool" :> "boolean")

RECURSIVE typeToTypeScript(_)
\* null is rendered Null
typeToTypeScript(type) ==
  CASE type.type = "Null" -> Null
    [] type.type = "SimpleType" -> lookupOr(typeMap, type.name, type.name)
    [] type.type = "ArrayType" ->
         typeToTypeScript([type |-> "SimpleType", name |-> type.elementType]) \o "[]"
    [] type.type = "UnionType" ->
         Join([i \in 1..Len(type.types) |-> typeToTypeScript(type.types[i])], " | ")
    [] type.type = "GenericType" ->
         type.name \o "<"
         \o Join([i \in 1..Len(type.typeParams) |-> typeToTypeScript(type.typeParams[i])], ", ")
         \o ">"
    [] OTHER -> "any"

\* type ? `<${typeToTypeScript(type)}>` : ''
typeAnnotation(type) ==
  IF type.type = "Null" THEN "" ELSE "<" \o typeToTypeScript(type) \o ">"

RECURSIVE expressionToJS(_, _)
expressionToJS(expr, typed) ==
  CASE expr.type = "Null" -> "undefined"
    [] expr.type = "Literal" -> expr.value
    [] expr.type = "Identifier" -> expr.name
    [] expr.type = "Update" ->
         IF expr.operator = "++" THEN expr.target \o " + 1"
         ELSE IF expr.operator = "--" THEN expr.target \o " - 1"
         ELSE IF expr.operator = "+=" /\ "value" \in DOMAIN expr
         THEN expr.target \o " + " \o expressionToJS(expr.value, typed)
         ELSE expr.target
    [] expr.type = "BinaryOp" ->
         expressionToJS(expr.left, typed) \o " " \o expr.operator \o " "
         \o expressionToJS(expr.right, typed)
    [] expr.type = "MethodCall" ->
         expr.object \o "." \o expr.method \o "("
         \o Join([i \in 1..Len(expr.args) |-> expressionToJS(expr.args[i], typed)], ", ")
         \o ")"
    [] expr.type = "PropertyAccess" /\ typed -> expr.object \o "." \o expr.property
    [] expr.type = "ArrowFunction" /\ typed ->
         "(" \o Join(expr.params, ", ") \o ") => " \o expressionToJS(expr.body, typed)
    [] expr.type = "Array" ->
         "[" \o Join([i \in 1..Len(expr.elements) |->
                        expressionToJS(expr.elements[i], typed)], ", ") \o "]"
    [] OTHER -> "null"

RECURSIVE expressionToJSWithReplacement(_, _, _)
expressionToJSWithReplacement(expr, from, to) ==
  IF expr.type = "Null" THEN "undefined"
  ELSE IF expr.type = "Identifier" /\ expr.name = from THEN to
  ELSE IF expr.type = "BinaryOp"
  THEN expressionToJSWithReplacement(expr.left, from, to) \o " " \o expr.operator \o " "
       \o expressionToJSWithReplacement(expr.right, from, to)
  ELSE expressionToJS(expr, TRUE)

arrowFunctionBodyToJS(expr, paramReplacement) ==
  IF expr.type = "ArrowFunction"
  THEN IF paramReplacement # "" /\ Len(expr.params) > 0
       THEN expressionToJSWithReplacement(expr.body, expr.params[1], paramReplacement)
       ELSE expressionToJS(expr.body, TRUE)
  ELSE expressionToJS(expr, TRUE)

\* an event handler generator with the generic branch only
generateEventHandlerGeneric(handler, typed) == "() => " \o expressionToJS(handler, typed)

generateEventHandler(handler, typed) ==
  LET setter(name) == "set" \o capitalize(name) IN
  IF handler.type = "Update" /\ handler.operator = "++"
  THEN "() => " \o setter(handler.target) \o "(" \o handler.target \o " + 1)"
  ELSE IF handler.type = "Update" /\ handler.operator = "--"
  THEN "() => " \o setter(handler.target) \o "(" \o handler.target \o " - 1)"
  ELSE IF handler.type = "Update" /\ handler.operator = "+=" /\ "value" \in DOMAIN handler
  THEN "() => " \o setter(handler.target) \o "(" \o handler.target \o " + "
       \o expressionToJS(handler.value, typed) \o ")"
  ELSE IF handler.type = "MethodCall" /\ handler.method = "push"
  THEN "() => " \o setter(handler.object) \o "([..." \o handler.object \o ", "
       \o Join([i \in 1..Len(handler.args) |-> expressionToJS(handler.args[i], typed)], ", ")
       \o "])"
  ELSE "() => " \o expressionToJS(handler, typed)

RECURSIVE traverse(_, _)
RECURSIVE traverseAll(_, _)
\* traverse(node) of extractDependencies, deps being the list so far
traverse(node, deps) ==
  IF node.type = "Null" THEN deps
  ELSE IF node.type = "Identifier"
  THEN IF SeqIncludes(deps, node.name) THEN deps ELSE Append(deps, node.name)
  ELSE IF node.type = "BinaryOp" THEN traverse(node.right, traverse(node.left, deps))
  ELSE IF node.type = "MethodCall" THEN traverseAll(node.args, Append(deps, node.object))
  ELSE deps
\* nodes.forEach(traverse)
traverseAll(nodes, deps) ==
  IF Len(nodes) = 0 THEN deps ELSE traverseAll(Tail(nodes), traverse(Head(nodes), deps))

extractDependencies(expr) == traverse(expr, <<>>)

htmlTagNames(typed) ==
  LET plain == ("btn" :> "button") @@ ("input" :> "input") @@ ("p" :> "p")
               @@ ("div" :> "div") @@ ("span" :> "span") @@ ("ul" :> "ul")
               @@ ("li" :> "li")
  IN IF typed THEN plain @@ ("h1" :> "h1") @@ ("h2" :> "h2") @@ ("h3" :> "h3") ELSE plain

eventMap == ("click" :> "onClick") @@ ("change" :> "onChange") @@ ("submit" :> "onSubmit")

generateAttribute(attr, typed) ==
  IF attr.value.type = "EventHandler"
  THEN lookupOr(eventMap, attr.name, "on" \o capitalize(attr.name))
       \o "={" \o attr.value.handler \o "}"
  ELSE IF attr.name = "val"
  THEN IF typed /\ attr.value.type = "Identifier"
       THEN "value={" \o expressionToJS(attr.value, typed) \o "} onChange={(e) => set"
            \o capitalize(attr.value.name) \o "(e.target.value)}"
       ELSE "value={" \o expressionToJS(attr.value, typed) \o "}"
  ELSE IF attr.name = "on" THEN "onChange={" \o expressionToJS(attr.value, typed) \o "}"
  ELSE attr.name \o "={" \o expressionToJS(attr.value, typed) \o "}"

\* the item type of a loop, which only generateTypeScript's copy writes
loopItemType(loop, typed) ==
  IF typed /\ loop.itemType.type # "Null" THEN ": " \o typeToTypeScript(loop.itemType)
  ELSE ""

\* template.replace(new RegExp(`{${loop.item}}`, 'g'), '{item}')
itemize(template, item) == ReplaceAll(template, "{" \o item \o "}", "{item}")

RECURSIVE generateJSX(_, _, _)
RECURSIVE generateJSXElement(_, _, _)

generateEachLoop(loop, indent, typed) ==
  LET spaces == Repeat(" ", indent)
      template == Trim(generateJSXElement(loop.template, 0, typed))
  IN spaces \o "{" \o loop.list \o ".map((item" \o loopItemType(loop, typed)
     \o ", index) => (\n" \o spaces \o "  " \o itemize(template, loop.item) \o "\n"
     \o spaces \o "))}"

generateJSX(jsx, indent, typed) ==
  LET spaces == Repeat(" ", indent) IN
  CASE jsx.type = "Null" -> spaces \o "<div />"
    [] jsx.type = "JSXElement" -> generateJSXElement(jsx, indent, typed)
    [] jsx.type = "JSXFragment" ->
         spaces \o "<>\n"
         \o Join([i \in 1..Len(jsx.children) |->
                    generateJSX(jsx.children[i], indent + 2, typed)], "\n")
         \o "\n" \o spaces \o "</>"
    [] jsx.type = "JSXExpression" -> "{" \o expressionToJS(jsx.expression, typed) \o "}"
    [] jsx.type = "JSXText" -> jsx.value
    [] jsx.type = "EachLoop" -> generateEachLoop(jsx, indent, typed)
    [] OTHER -> spaces \o "<div />"

generateJSXElement(element, indent, typed) ==
  LET spaces == Repeat(" ", indent)
      children == element.children
      htmlTagName == lookupOr(htmlTagNames(typed), element.tagName, element.tagName)
      attrs == [i \in 1..Len(element.attributes) |->
                  generateAttribute(element.attributes[i], typed)]
      attrString == IF Len(attrs) > 0 THEN " " \o Join(attrs, " ") ELSE ""
      open == spaces \o "<" \o htmlTagName \o attrString
      inline(child) ==
        IF child.type = "JSXText" THEN child.value
        ELSE "{" \o expressionToJS(child.expression, typed) \o "}"
      block(child) ==
        IF child.type \in {"JSXText", "JSXExpression"}
        THEN spaces \o "  " \o inline(child)
        ELSE generateJSX(child, indent + 2, typed)
  IN IF Len(children) = 0 THEN open \o " />"
     ELSE IF \A i \in 1..Len(children) : children[i].type \in {"JSXText", "JSXExpression"}
     THEN open \o ">" \o Join([i \in 1..Len(children) |-> inline(children[i])], " ")
          \o "</" \o htmlTagName \o ">"
     ELSE open \o ">\n" \o Join([i \in 1..Len(children) |-> block(children[i])], "\n")
          \o "\n" \o spaces \o "</" \o htmlTagName \o ">"

\* record.<field>, null when the record has no such field
Field(record, field) == IF field \in DOMAIN record THEN record[field] ELSE NullNode

\* the fixed import list of the plain generator
importsOfGenerate(a) == <<"React", "useState", "useEffect", "useMemo">>

\* the imports array of generateTypeScript
imports(a) ==
  LET when(field, hook) == IF Len(Collection(a, field)) > 0 THEN <<hook>> ELSE <<>>
  IN <<"React">>
     \o when("handles", "forwardRef")
     \o when("states", "useState")
     \o when("reducers", "useReducer")
     \o when("transitions", "useTransition")
     \o when("contexts", "useContext")
     \o when("callbacks", "useCallback")
     \o when("refs", "useRef")
     \o when("handles", "useImperativeHandle")
     \o when("effects", "useEffect")
     \o when("layoutEffects", "useLayoutEffect")
     \o when("memos", "useMemo")
     \o when("deferredValues", "useDeferredValue")
     \o when("optimistics", "useOptimistic")
     \o when("ids", "useId")
     \o when("syncs", "useSyncExternalStore")
     \o when("actionStates", "useActionState")

importList(a) ==
  IF Len(imports(a)) > 1 THEN "React, { " \o Join(Tail(imports(a)), ", ") \o " }"
  ELSE "React"

\* if (collection.length > 0) addLine('')
blankAfter(collection) == IF Len(collection) > 0 THEN <<"">> ELSE <<>>

\* the three lines of one effect, hook being useEffect or useLayoutEffect
effectLines(effect, hook, typed) ==
  LET deps == Join([i \in 1..Len(effect.args) |-> expressionToJS(effect.args[i], typed)], ", ")
      callee == IF effect.functionName = "log" THEN "console.log" ELSE effect.functionName
  IN <<"  " \o hook \o "(() => {", "    " \o callee \o "(" \o deps \o ");",
       "  }, [" \o deps \o "]);">>

reducerFunction(reducer) ==
  <<"function " \o reducer.name \o "Reducer(state, action) {", "  switch (action.type) {">>
  \o [i \in 1..Len(reducer.actions) |->
        "    case '" \o reducer.actions[i].name \o "': return "
        \o arrowFunctionBodyToJS(reducer.actions[i].handler, "state") \o ";"]
  \o <<"    default: return state;", "  }", "}", "">>

stateLine(state) ==
  "  const [" \o state.name \o ", set" \o capitalize(state.name) \o "] = useState"
  \o typeAnnotation(state.type) \o "(" \o expressionToJS(state.initialValue, TRUE) \o ");"

optimisticLine(optimistic) ==
  "  const [" \o optimistic.name \o ", add" \o capitalize(optimistic.name)
  \o "] = useOptimistic(" \o expressionToJS(optimistic.state, TRUE) \o ", "
  \o expressionToJS(optimistic.updateFn, TRUE) \o ");"

syncLine(sync) ==
  "  const " \o sync.name \o " = useSyncExternalStore("
  \o expressionToJS(sync.subscribe, TRUE) \o ", " \o expressionToJS(sync.getSnapshot, TRUE)
  \o (IF Field(sync, "getServerSnapshot").type # "Null"
      THEN ", " \o expressionToJS(sync.getServerSnapshot, TRUE) ELSE "")
  \o ");"

actionStateLine(actionState) ==
  "  const [" \o actionState.name \o ", " \o actionState.name \o "Action, isPending"
  \o capitalize(actionState.name) \o "] = useActionState("
  \o expressionToJS(actionState.actionFn, TRUE) \o ", "
  \o expressionToJS(actionState.initialState, TRUE) \o ");"

reducerLine(reducer) ==
  "  const [" \o reducer.name \o ", dispatch" \o capitalize(reducer.name)
  \o "] = useReducer(" \o reducer.name \o "Reducer, "
  \o expressionToJS(reducer.initialValue, TRUE) \o ");"

transitionLine(transition) ==
  "  const [isPending" \o capitalize(transition.name) \o ", start"
  \o capitalize(transition.name) \o "Transition] = useTransition();"

\* the dependencies of a cached callback with the parameters left in
callbackDepsUnfiltered(callback) == extractDependencies(Field(callback.value, "body"))

\* the dependency array of a cached callback
callbackDeps(callback) ==
  LET allDeps == extractDependencies(Field(callback.value, "body"))
      params == Collection(callback.value, "params")
  IN SelectSeq(allDeps, LAMBDA dep : ~SeqIncludes(params, dep))

callbackLine(callback) ==
  "  const " \o callback.name \o " = useCallback(" \o expressionToJS(callback.value, TRUE)
  \o ", [" \o Join(callbackDeps(callback), ", ") \o "]);"

refLine(ref) ==
  "  const " \o ref.name \o " = useRef" \o typeAnnotation(Field(ref, "type")) \o "("
  \o (IF Field(ref, "initialValue").type # "Null"
      THEN expressionToJS(ref.initialValue, TRUE) ELSE "null")
  \o ");"

memoLine(memo, typed) ==
  "  const " \o memo.name \o " = useMemo"
  \o (IF typed THEN typeAnnotation(Field(memo, "type")) ELSE "")
  \o "(() => " \o expressionToJS(memo.value, typed) \o ", ["
  \o Join(extractDependencies(memo.value), ", ") \o "]);"

eventLine(event, typed) ==
  "  const " \o event.name \o " = " \o generateEventHandler(event.handler, typed) \o ";"

generateTypeScript(a, opts) ==
  LET componentName == IF opts.componentName = "" THEN "Component" ELSE opts.componentName
      hasHandles == Len(Collection(a, "handles")) > 0
      contextObjectName(context) == capitalize(context.name) \o "Context"
      propsParam ==
        IF Len(a.props) > 0
        THEN "{ " \o Join([i \in 1..Len(a.props) |-> a.props[i].name], ", ") \o " }: "
             \o componentName \o "Props"
        ELSE ""
      each(field, Line(_)) == Map(Collection(a, field), Line)
      section(field, Line(_)) == each(field, Line) \o blankAfter(Collection(a, field))
      propLine(prop) ==
        "  " \o prop.name \o ": "
        \o (IF typeToTypeScript(prop.type) = Null THEN "any" ELSE typeToTypeScript(prop.type))
        \o ";"
      contextImport(context) ==
        "import { " \o contextObjectName(context) \o " } from './"
        \o contextObjectName(context) \o "';"
      idLine(id) == "  const " \o id.name \o " = useId();"
      deferredLine(deferred) ==
        "  const " \o deferred.name \o " = useDeferredValue("
        \o expressionToJS(deferred.sourceValue, TRUE) \o ");"
      contextLine(context) ==
        "  const " \o context.name \o " = useContext(" \o contextObjectName(context) \o ");"
      handleLine(handle) ==
        "    " \o handle.name \o ": " \o expressionToJS(handle.value, TRUE) \o ","
      typedMemoLine(memo) == memoLine(memo, TRUE)
      typedEventLine(event) == eventLine(event, TRUE)
      useEffectLines(effect) == effectLines(effect, "useEffect", TRUE)
      useLayoutEffectLines(effect) == effectLines(effect, "useLayoutEffect", TRUE)
      lines ==
        <<"import " \o importList(a) \o " from 'react';">>
        \o each("contexts", contextImport)
        \o <<"">>
        \o (IF Len(a.props) > 0
            THEN <<"interface " \o componentName \o "Props {">> \o each("props", propLine)
                 \o <<"}", "">>
            ELSE <<>>)
        \o Flatten(each("reducers", reducerFunction))
        \o (IF hasHandles
            THEN <<"const " \o componentName \o " = forwardRef(("
                   \o (IF Len(a.props) > 0 THEN propsParam ELSE "props") \o ", ref) => {">>
            ELSE <<"function " \o componentName \o "(" \o propsParam \o ") {">>)
        \o section("states", stateLine)
        \o section("ids", idLine)
        \o section("deferredValues", deferredLine)
        \o section("optimistics", optimisticLine)
        \o section("syncs", syncLine)
        \o section("actionStates", actionStateLine)
        \o section("reducers", reducerLine)
        \o section("transitions", transitionLine)
        \o section("contexts", contextLine)
        \o section("callbacks", callbackLine)
        \o section("refs", refLine)
        \o (IF hasHandles
            THEN <<"  useImperativeHandle(ref, () => ({">> \o each("handles", handleLine)
                 \o <<"  }));", "">>
            ELSE <<>>)
        \o section("memos", typedMemoLine)
        \o Flatten(each("effects", useEffectLines)) \o blankAfter(a.effects)
        \o Flatten(each("layoutEffects", useLayoutEffectLines))
        \o blankAfter(Collection(a, "layoutEffects"))
        \o section("events", typedEventLine)
        \o <<"  return (", generateJSX(a.jsx, 4, TRUE), "  );">>
        \o <<IF hasHandles THEN "});" ELSE "}", "", "export default " \o componentName \o ";">>
  IN Join(lines, "\n")

\* String(prop) of a prop of the Component, an object
objectToString(object) == "[object Object]"

generate(a) ==
  LET componentName == "Component"
      propsParam ==
        IF Len(a.props) > 0
        THEN "{ " \o Join([i \in 1..Len(a.props) |-> objectToString(a.props[i])], ", ") \o " }"
        ELSE ""
      plainStateLine(state) ==
        "  const [" \o state.name \o ", set" \o capitalize(state.name) \o "] = useState("
        \o expressionToJS(state.initialValue, FALSE) \o ");"
      plainMemoLine(memo) == memoLine(memo, FALSE)
      plainEventLine(event) == eventLine(event, FALSE)
      useEffectLines(effect) == effectLines(effect, "useEffect", FALSE)
      lines ==
        <<"import React, { useState, useEffect, useMemo } from 'react';", "">>
        \o <<"function " \o componentName \o "(" \o propsParam \o ") {">>
        \o Map(a.states, plainStateLine) \o blankAfter(a.states)
        \o Map(a.memos, plainMemoLine) \o blankAfter(a.memos)
        \o Flatten(Map(a.effects, useEffectLines)) \o blankAfter(a.effects)
        \o Map(a.events, plainEventLine) \o blankAfter(a.events)
        \o <<"  return (", generateJSX(a.jsx, 4, FALSE), "  );">>
        \o <<"}", "", "export default " \o componentName \o ";">>
  IN Join(lines, "\n")

\* compile of cli.js hands the Component to generateTypeScript
GenerateTypeScript ==
  /\ phase = "generate"
  /\ options.typescript
  /\ code' = generateTypeScript(ast, options)
  /\ phase' = "done"
  /\ UNCHANGED <<filePath, input, options, error, lexVars, parseVars>>

\* compile of cli.js and of runtime.js hands the Component to generate
Generate ==
  /\ phase = "generate"
  /\ ~options.typescript
  /\ code' = generate(ast)
  /\ phase' = "done"
  /\ UNCHANGED <<filePath, input, options, error, lexVars, parseVars>>

(***************************************************************************)
(* The pipeline: tokenize(input), parse(tokens), then one of the           *)
(* generators.                                                             *)
(***************************************************************************)
Tokenize ==
  \/ LexWhitespace \/ LexNewline \/ LexSymbol \/ LexColon \/ LexPlus \/ LexMinus
  \/ LexAssign \/ LexString \/ LexNumber \/ LexIdentifier \/ LexError \/ LexEnd

Parse ==
  \/ parse \/ skipNewlines \/ parseTypeAnnotation \/ parseType \/ parsePrimaryType
  \/ parseProp \/ parseState \/ parseReducerValue \/ parseEffect \/ parseMemo
  \/ parseEvent \/ parseExpression \/ parseJSX \/ parseJSXElement \/ parseEachLoop

\* the Counter Component of README.md
CounterSource == "@count = 0\n!click = count++\n<btn @click=click>{count}</btn>"

\* the TypeScript Example of README.md, with a list and a two-way bound input
TodoSource ==
  ":name::string\n@items::string[] = []\n@input::string = \"\"\n"
  \o "%count::number = items.length\n!add = items.push(input)\n"
  \o "<div>\n  <h1>Hello {name}, age 1.50</h1>\n  <input val={input} />\n"
  \o "  <btn @click=add disabled>Add</btn>\n  <ul>\n"
  \o "    <each item::string in items>\n      <li>{item}</li>\n    </each>\n  </ul>\n</div>"

Corpus ==
  {CounterSource, TodoSource,
   "@a:reducer = {0, {inc: a + 1, dec: b}}\n:p::Map<str, num|bool>\n$log(a, b)\n<p>{a}</p>",
   "@n = 5\n!dec = n--\n!more = n += 2\n!show = user.name\n!sum = n - m\n<p @click=show>{n}</p>",
   "%total = a + a.add(c)\n%size = items.length\n%all = [a, b]\n<span>{total}</span>",
   "<ul><each todo in list><li>{todo}</li></each></ul>",
   "<ul><each todo in list><li>{todo.text} {todo}</li></each></ul>",
   "<ul><each item in list><li>{item}</li></each></ul>",
   "<div><p>x</p><each row in list><li>{row}</li></div></div>",
   "!f = s => s + 1", "@n = #", "<a -b +c :d>- + :</a>", "@s:reducer = 1",
   "@n = 1 + a", "%m = \"a\" + b\n<p>{m}</p>", "!e = 2\n<p>{1 + a}</p>"}

\* declarations in an order that is not the order they are generated in
ShuffledSource ==
  "!inc = n++\n%double = n + n\n$log(n)\n:label\n@n = 0\n@m = 1\n<p>{label}</p>"

\* texts for the tokenizer: strings left open, characters it has no branch
\* for, the operators of two characters, the sigils of the declarations
LexicalCorpus ==
  {"@s = 'a\\", "@a = 1\n  ^cb", "\"a#b\" ~", "'it\\'s' ;",
   "@a::num = b\n!i = a++\n!d = a--\n!p = a += 1", "a+++b:::c--=>d",
   "$$measure(el)", "^handler", "~focus", "#inputRef", "&theme", "*uid",
   ":label\n<p>{label}</p>", "@a = 1\n\nb = 2", ShuffledSource}

\* one state declaration each, with and without a modifier
StateCorpus ==
  {"@n:reducer = 0", "@n:transition", "@n:deferred = src",
   "@n:optimistic = {items, add}", "@n = v"}

\* markup with value attributes, tags with and without an alias, and markup
\* with none, one and several elements at the top
MarkupCorpus ==
  {"<input val={a + b} />", "@q = 0\n<input val={q} />", "<input val={draft} />",
   "<btn>go</btn>", "<section><btn>a</btn><h1>t</h1><hr /></section>",
   "<toString />", "<constructor>x</constructor>",
   "<p>a</p>\n@n = 0\n<div>b</div>\n<span>c</span>"}

\* a memo whose value is a chain of the identifiers a, b, c, ... joined by the
\* binary operators ops
ChainNames == <<"a", "b", "c", "d", "e">>
ChainOperators == {"+", "-", "*", "/"}
Chains == UNION {[1..k -> ChainOperators] : k \in 1..(MaxChain - 1)}

RECURSIVE chainFrom(_, _)
chainFrom(ops, i) ==
  IF i > Len(ops) THEN ChainNames[i]
  ELSE ChainNames[i] \o " " \o ops[i] \o " " \o chainFrom(ops, i + 1)

ChainSource(ops) == "%r = " \o chainFrom(ops, 1)
ChainSources == {ChainSource(ops) : ops \in Chains}

\* pieces of markup that source texts are put together from
Fragments == {"<div>", "</div>", "<p>", "</p>", "<div ", "{n}", "<br />"}

RECURSIVE Concat(_)
Concat(seq) == IF Len(seq) = 0 THEN "" ELSE Head(seq) \o Concat(Tail(seq))

Sources ==
  Corpus \cup LexicalCorpus \cup StateCorpus \cup MarkupCorpus \cup ChainSources
  \cup {Concat(fs) : fs \in UNION {[1..k -> Fragments] : k \in 1..MaxFragments}}

\* what getFileInfo of cli.js makes of the file name
Options == {[typescript |-> t, componentName |-> "Counter"] : t \in BOOLEAN}

Init ==
  /\ filePath = "counter.jsx.dsl"
  /\ input \in Sources
  /\ options \in Options
  /\ phase = "tokenize"
  /\ error = ""
  /\ charPosition = 0
  /\ line = 1
  /\ column = 1
  /\ tokens = <<>>
  /\ position = 0
  /\ stack = <<Frame("parse", "loop", NoLocals)>>
  /\ ret = NullNode
  /\ ast = emptyAst
  /\ code = ""

Next == Tokenize \/ Parse \/ GenerateTypeScript \/ Generate

Spec == Init /\ [][Next]_vars

\* parse is one synchronous call: a parser step that can be taken is taken
FairSpec == Spec /\ WF_vars(Parse)

(***************************************************************************)
(* The generators alone.  generateTypeScript and generate are exports of   *)
(* the package and take Components of any parser, among them the           *)
(* declaration kinds (callbacks, refs, transitions, ...) that parse of     *)
(* index.js does not build.                                                *)
(***************************************************************************)
ArrowFunction(params, body) == [type |-> "ArrowFunction", params |-> params, body |-> body]
BinaryOp(left, operator, right) ==
  [type |-> "BinaryOp", left |-> left, operator |-> operator, right |-> right]
MethodCall(object, method, args) ==
  [type |-> "MethodCall", object |-> object, method |-> method, args |-> args]
PropertyAccess(object, property) ==
  [type |-> "PropertyAccess", object |-> object, property |-> property]
ArrayLiteral(elements) == [type |-> "Array", elements |-> elements]
Update(target, operator) == [type |-> "Update", target |-> target, operator |-> operator]
UpdateBy(target, value) ==
  [type |-> "Update", target |-> target, operator |-> "+=", value |-> value]

\* the expressions parseExpression returns without reading a right operand
Operands ==
  {Identifier("a"), Identifier("b"), Literal("1"),
   PropertyAccess("a", "length"), PropertyAccess("items", "length"),
   ArrayLiteral(<<Identifier("b")>>), ArrayLiteral(<<>>),
   ArrowFunction(<<"x">>, BinaryOp(Identifier("x"), "+", Identifier("c"))),
   Update("a", "++"), Update("b", "--"), UpdateBy("a", Identifier("b"))}
  \cup {MethodCall(object, method, args) :
          object \in {"a", "b"}, method \in {"add", "push"},
          args \in {<<>>, <<Identifier("a")>>, <<Identifier("c")>>}}

\* a binary expression is right-nested under a simple left operand
LeftOperands == {Identifier("a"), Identifier("b"), Literal("1")}

RECURSIVE Expressions(_)
Expressions(operands) ==
  IF operands <= 1 THEN Operands
  ELSE Operands
       \cup {BinaryOp(left, "+", right) :
               left \in LeftOperands, right \in Expressions(operands - 1)}

DeclarationNames == {"count", "userName", "Total", "_x"}

\* the collections generateTypeScript reads with ?. or || []
OptionalKinds ==
  {"handles", "reducers", "transitions", "contexts", "callbacks", "refs",
   "layoutEffects", "deferredValues", "optimistics", "ids", "syncs", "actionStates"}
RequiredKinds == {"props", "states", "effects", "memos", "events"}

\* one declaration of a kind, named name
declaration(kind, name) ==
  CASE kind = "props" -> [name |-> name, type |-> [type |-> "SimpleType", name |-> "str"]]
    [] kind = "states" -> [name |-> name, type |-> NullNode, initialValue |-> Literal("0")]
    [] kind = "effects" -> [functionName |-> "log", args |-> <<Identifier(name)>>]
    [] kind = "layoutEffects" -> [functionName |-> "measure", args |-> <<Identifier(name)>>]
    [] kind = "memos" ->
         [name |-> name, type |-> NullNode,
          value |-> BinaryOp(Identifier("a"), "+", Identifier("b"))]
    [] kind = "events" -> [name |-> name, handler |-> Update("n", "++")]
    [] kind = "handles" -> [name |-> name, value |-> ArrowFunction(<<>>, Identifier("a"))]
    [] kind = "reducers" ->
         [name |-> name, initialValue |-> Literal("0"),
          actions |-> <<[name |-> "inc",
                         handler |-> ArrowFunction(<<"s">>, BinaryOp(Identifier("s"), "+",
                                                                      Literal("1")))]>>]
    [] kind = "callbacks" -> [name |-> name, value |-> ArrowFunction(<<>>, Identifier("a"))]
    [] kind = "refs" -> [name |-> name, type |-> NullNode, initialValue |-> NullNode]
    [] kind = "deferredValues" -> [name |-> name, sourceValue |-> Identifier("query")]
    [] kind = "optimistics" ->
         [name |-> name, state |-> Identifier("items"),
          updateFn |-> ArrowFunction(<<"s">>, Identifier("s"))]
    [] kind = "syncs" ->
         [name |-> name, subscribe |-> Identifier("subscribe"),
          getSnapshot |-> Identifier("getSnapshot")]
    [] kind = "actionStates" ->
         [name |-> name, actionFn |-> Identifier("submit"), initialState |-> Literal("0")]
    [] OTHER -> [name |-> name]

\* the Component that declares one name under each of the kinds
Component(kinds, name) ==
  [field \in {"type", "jsx"} \cup RequiredKinds \cup kinds |->
     CASE field = "type" -> "Component"
       [] field = "jsx" -> NullNode
       [] field \in kinds -> <<declaration(field, name)>>
       [] OTHER -> <<>>]

\* the Component with one memo, one event and three cached callbacks of a value
ExpressionComponent(value) ==
  [Component({}, "") EXCEPT
     !.memos = <<[name |-> "m", type |-> NullNode, value |-> value]>>,
     !.events = <<[name |-> "handle", handler |-> value]>>]
  @@ [callbacks |->
        <<[name |-> "f", value |-> ArrowFunction(<<>>, value)],
          [name |-> "g", value |-> ArrowFunction(<<"a">>, value)],
          [name |-> "h", value |-> ArrowFunction(<<"x", "b">>, value)]>>]

\* the examples the documentation gives for the dependency arrays
ExampleComponent ==
  [Component({}, "") EXCEPT
     !.memos =
       <<[name |-> "sum", type |-> NullNode,
          value |-> BinaryOp(Identifier("a"), "+",
                             MethodCall("b", "method", <<Identifier("c")>>))]>>]
  @@ [callbacks |->
        <<[name |-> "addTotal",
           value |-> ArrowFunction(<<"x">>, BinaryOp(Identifier("x"), "+",
                                                     Identifier("total")))],
          [name |-> "increment",
           value |-> ArrowFunction(<<>>, BinaryOp(Identifier("count"), "+",
                                                  Literal("1")))]>>]

\* the Component with one reducer: the actions of examples/useCallback.dsl
\* and one whose handler takes a and returns a value
ReducerComponent(value) ==
  LET apply(params, operator) ==
        ArrowFunction(params, BinaryOp(Identifier("s"), operator, Literal("1")))
  IN Component({}, "")
     @@ [reducers |->
           <<[name |-> "count", initialValue |-> Literal("0"),
              actions |-> <<[name |-> "increment", handler |-> apply(<<"s">>, "+")],
                            [name |-> "decrement", handler |-> apply(<<"s">>, "-")],
                            [name |-> "reset", handler |-> ArrowFunction(<<"s">>, Literal("0"))],
                            [name |-> "apply", handler |-> ArrowFunction(<<"a">>, value)],
                            [name |-> "keep", handler |-> Identifier("b")]>>]>>]

AllKinds == RequiredKinds \cup OptionalKinds

\* the Component that declares one name under every kind, the name of each
\* declaration made of a prefix and its kind
NamedByKind(prefix) ==
  [field \in {"type", "jsx"} \cup AllKinds |->
     CASE field = "type" -> "Component"
       [] field = "jsx" -> NullNode
       [] OTHER -> <<declaration(field, prefix \o field)>>]

\* the Component that declares two names, in this order, under each of the kinds
TwoOfEach(kinds, first, second) ==
  [field \in {"type", "jsx"} \cup RequiredKinds \cup kinds |->
     CASE field = "type" -> "Component"
       [] field = "jsx" -> NullNode
       [] field \in kinds -> <<declaration(field, first), declaration(field, second)>>
       [] OTHER -> <<>>]

Components ==
  {Component(kinds, name) :
     kinds \in {ks \in SUBSET AllKinds : Cardinality(ks) <= MaxKinds},
     name \in DeclarationNames}
  \cup {Component(AllKinds, name) : name \in DeclarationNames}
  \cup {ExpressionComponent(value) : value \in Expressions(MaxOperands)}
  \cup {ExampleComponent}
  \cup {ReducerComponent(value) : value \in Operands}
  \cup {NamedByKind(prefix) : prefix \in {"", "my", "set"}}
  \cup {TwoOfEach({"states"}, names[1], names[2]) :
          names \in {<<"count", "Count">>, <<"count", "setCount">>, <<"count", "total">>}}
  \cup {TwoOfEach(kinds, names[1], names[2]) :
          kinds \in {AllKinds, RequiredKinds, {"callbacks", "memos", "events"}},
          names \in {<<"count", "total">>, <<"total", "count">>, <<"b", "a">>}}

GenInit ==
  /\ filePath = "counter.jsx.dsl"
  /\ input = ""
  /\ options \in Options
  /\ phase = "generate"
  /\ error = ""
  /\ charPosition = 0
  /\ line = 1
  /\ column = 1
  /\ tokens = <<>>
  /\ position = 0
  /\ stack = <<>>
  /\ ret = NullNode
  /\ ast \in Components
  /\ code = ""

GenNext == GenerateTypeScript \/ Generate

GenSpec == GenInit /\ [][GenNext]_vars

(***************************************************************************)
(* Reading the generated text and the Component, for the properties below. *)
(***************************************************************************)
\* the pieces of text between the occurrences of sep (a separator that does
\* not overlap itself)
Split(text, sep) ==
  LET at == SelectSeq([i \in 1..Len(text) |-> i],
                      LAMBDA i : /\ i + Len(sep) - 1 <= Len(text)
                                 /\ SubSeq(text, i, i + Len(sep) - 1) = sep)
      piece(from, to) == IF from > to THEN "" ELSE SubSeq(text, from, to)
  IN [n \in 1..(Len(at) + 1) |->
        piece(IF n = 1 THEN 1 ELSE at[n - 1] + Len(sep),
              IF n = Len(at) + 1 THEN Len(text) ELSE at[n] - 1)]

StartsWith(text, prefix) ==
  Len(prefix) <= Len(text) /\ SubSeq(text, 1, Len(prefix)) = prefix

RECURSIVE LastIndexOf(_, _, _)
\* greatest i <= from with the character at text[i], 0 when there is none
LastIndexOf(text, char, from) ==
  IF from < 1 THEN 0
  ELSE IF CharAt(text, from) = char THEN from
  ELSE LastIndexOf(text, char, from - 1)

outputLines == Split(code, "\n")

\* the lines of the generated text that start with a prefix
linesStarting(prefix) == SelectSeq(outputLines, LAMBDA l : StartsWith(l, prefix))

\* the names in the dependency array that ends a line: "..., [a, b]);"
dependencyArray(declarationLine) ==
  LET open == LastIndexOf(declarationLine, "[", Len(declarationLine))
      inner == IF open + 1 > Len(declarationLine) - 3 THEN ""
               ELSE SubSeq(declarationLine, open + 1, Len(declarationLine) - 3)
  IN IF inner = "" THEN <<>> ELSE Split(inner, ", ")

\* the dependency array emitted for the memo or cached callback of a name
emittedDependencies(name, hook) ==
  dependencyArray(linesStarting("  const " \o name \o " = " \o hook)[1])

NoDuplicates(seq) == \A i, j \in 1..Len(seq) : seq[i] = seq[j] => i = j

RECURSIVE IsSubsequence(_, _)
IsSubsequence(sub, seq) ==
  IF Len(sub) = 0 THEN TRUE
  ELSE IF Len(seq) = 0 THEN FALSE
  ELSE IF Head(sub) = Head(seq) THEN IsSubsequence(Tail(sub), Tail(seq))
  ELSE IsSubsequence(sub, Tail(seq))

RECURSIVE AppendNew(_, _)
\* seq followed by the members of more it does not have yet
AppendNew(seq, more) ==
  IF Len(more) = 0 THEN seq
  ELSE AppendNew(IF SeqIncludes(seq, Head(more)) THEN seq ELSE Append(seq, Head(more)),
                 Tail(more))

Without(seq, removed) == SelectSeq(seq, LAMBDA x : ~SeqIncludes(removed, x))

RECURSIVE FreeIdentifiers(_)
RECURSIVE FreeIdentifiersOfAll(_)
\* the free identifiers an expression reads, each once, in first-seen order
FreeIdentifiers(expr) ==
  CASE expr.type = "Identifier" -> <<expr.name>>
    [] expr.type = "BinaryOp" ->
         AppendNew(FreeIdentifiers(expr.left), FreeIdentifiers(expr.right))
    [] expr.type = "MethodCall" ->
         AppendNew(<<expr.object>>, FreeIdentifiersOfAll(expr.args))
    [] expr.type = "PropertyAccess" -> <<expr.object>>
    [] expr.type = "Array" -> FreeIdentifiersOfAll(expr.elements)
    [] expr.type = "ArrowFunction" -> Without(FreeIdentifiers(expr.body), expr.params)
    [] expr.type = "Update" ->
         AppendNew(<<expr.target>>, FreeIdentifiers(Field(expr, "value")))
    [] OTHER -> <<>>
FreeIdentifiersOfAll(exprs) ==
  IF Len(exprs) = 0 THEN <<>>
  ELSE AppendNew(FreeIdentifiers(Head(exprs)), FreeIdentifiersOfAll(Tail(exprs)))

\* Cap of the naming rules: the first character in upper case, the rest as it is
Cap(name) ==
  IF name = "" THEN ""
  ELSE LET i == IndexFrom(LowerCase, SubSeq(name, 1, 1), 1)
       IN (IF i = 0 THEN SubSeq(name, 1, 1) ELSE SubSeq(UpperCase, i, i))
          \o SubSeq(name, 2, Len(name))

(***************************************************************************)
(* The build adapters: compile of cli.js, the webpack loader               *)
(* (jsx-dsl-loader.js) and the transform hook of the vite plugin.  Each    *)
(* takes the path of a DSL file and derives from it the name of the        *)
(* component and whether the typed generator is to run.                    *)
(***************************************************************************)
EndsWith(text, suffix) ==
  Len(suffix) <= Len(text)
  /\ SubSeq(text, Len(text) - Len(suffix) + 1, Len(text)) = suffix

\* path.basename(path, ext): what follows the last separator, without ext
\* when it ends with ext and is more than ext
basename(path, ext) ==
  LET base == Slice(path, LastIndexOf(path, "/", Len(path)) + 1)
  IN IF ext # Null /\ EndsWith(base, ext) /\ Len(base) > Len(ext)
     THEN SubSeq(base, 1, Len(base) - Len(ext))
     ELSE base

\* a character of the class \w
IsWordCharacter(c) == IsLetter(c) \/ IsDigit(c) \/ c = "_"

\* .replace(/^\w/, c => c.toUpperCase())
upperCaseFirstWordCharacter(s) ==
  IF IsWordCharacter(CharAt(s, 1)) THEN toUpperCase(CharAt(s, 1)) \o Slice(s, 2) ELSE s

RECURSIVE upperCaseAfterHyphen(_)
\* .replace(/-(\w)/g, (_, c) => c.toUpperCase()): from the left, a hyphen
\* and the word character after it become that character in upper case
upperCaseAfterHyphen(s) ==
  IF Len(s) = 0 THEN ""
  ELSE IF CharAt(s, 1) = "-" /\ IsWordCharacter(CharAt(s, 2))
  THEN toUpperCase(CharAt(s, 2)) \o upperCaseAfterHyphen(Slice(s, 3))
  ELSE CharAt(s, 1) \o upperCaseAfterHyphen(Slice(s, 2))

RECURSIVE removeNonAlphanumeric(_)
\* .replace(/[^a-zA-Z0-9]/g, '')
removeNonAlphanumeric(s) ==
  IF Len(s) = 0 THEN ""
  ELSE (IF IsLetter(CharAt(s, 1)) \/ IsDigit(CharAt(s, 1)) THEN CharAt(s, 1) ELSE "")
       \o removeNonAlphanumeric(Slice(s, 2))

getDslExtension(path) ==
  IF EndsWith(path, ".tsx.dsl") THEN ".tsx.dsl"
  ELSE IF EndsWith(path, ".jsx.dsl") THEN ".jsx.dsl"
  ELSE Null

\* getFileInfo of cli.js and getLoaderFileInfo of the loader, which derive
\* the name alike
getFileInfo(path) ==
  [isTypeScript |-> EndsWith(path, ".tsx.dsl"),
   componentName |->
     upperCaseAfterHyphen(upperCaseFirstWordCharacter(basename(path, getDslExtension(path)))),
   extension |-> getDslExtension(path)]

\* the componentName of the plugin's transform
transformComponentName(id) ==
  removeNonAlphanumeric(
    upperCaseAfterHyphen(upperCaseFirstWordCharacter(basename(id, getDslExtension(id)))))

\* compile of cli.js, with options.typescript || fileInfo.isTypeScript: the
\* name is derived and a generator is to run
compile ==
  /\ phase = "adapt"
  /\ options' = [typescript |-> options.typescript \/ getFileInfo(filePath).isTypeScript,
                 componentName |-> getFileInfo(filePath).componentName]
  /\ phase' = "generate"
  /\ UNCHANGED <<filePath, input, error, lexVars, parseVars, code>>

\* the loader, with fileInfo.isTypeScript || this.query?.typescript
jsxDslLoader ==
  /\ phase = "adapt"
  /\ options' = [typescript |-> getFileInfo(filePath).isTypeScript \/ options.typescript,
                 componentName |-> getFileInfo(filePath).componentName]
  /\ phase' = "generate"
  /\ UNCHANGED <<filePath, input, error, lexVars, parseVars, code>>

\* the plugin's transform, with isTsxDslFile(id) || typescript
transform ==
  /\ phase = "adapt"
  /\ options' = [typescript |-> EndsWith(filePath, ".tsx.dsl") \/ options.typescript,
                 componentName |-> transformComponentName(filePath)]
  /\ phase' = "generate"
  /\ UNCHANGED <<filePath, input, error, lexVars, parseVars, code>>

RECURSIVE BaseNames(_)
\* the base names of at most n parts, joined by hyphens and underscores
BaseNames(n) ==
  LET parts == {"counter", "user", "profile", "my", "component", "x", "1", "_a"}
      separators == {"-", "_", "--", "-_"}
  IN IF n <= 1 THEN parts
     ELSE BaseNames(n - 1)
          \cup {base \o sep \o part : base \in BaseNames(n - 1), sep \in separators,
                                       part \in parts}

\* DSL files of both extensions, in the working directory and below it
FilePaths ==
  {dir \o base \o ext : dir \in {"", "src/components/"}, base \in BaseNames(MaxParts),
                         ext \in {".jsx.dsl", ".tsx.dsl"}}

AdapterInit ==
  /\ filePath \in FilePaths
  /\ input = ""
  /\ options \in {[typescript |-> t, componentName |-> ""] : t \in BOOLEAN}
  /\ phase = "adapt"
  /\ error = ""
  /\ charPosition = 0
  /\ line = 1
  /\ column = 1
  /\ tokens = <<>>
  /\ position = 0
  /\ stack = <<>>
  /\ ret = NullNode
  /\ ast = emptyAst
  /\ code = ""

AdapterNext == compile \/ jsxDslLoader \/ transform

AdapterSpec == AdapterInit /\ [][AdapterNext]_vars

Done == phase = "done"
Typed == options.typescript

(***************************************************************************)
(* C1  Termination of parse.                                               *)
(***************************************************************************)
\* C1: for every token sequence tokenize produces, parse returns a Component
\* or raises an error after finitely many cursor steps, truncated markup
\* included.
C1_ParseTerminates == (phase = "parse") ~> (phase \in {"generate", "done", "failed"})

(***************************************************************************)
(* C2  Mismatched closing tags.                                            *)
(***************************************************************************)
\* the parser stands at the name of the closing tag of an element
atClosingName ==
  In("parseJSXElement") /\ top.pc = "closeName" /\ peekType(0) = "IDENTIFIER"

\* how many elements are open at the cursor
openElements == Cardinality({i \in 1..Len(stack) : stack[i].fn = "parseJSXElement"})

\* C2: an element, at any nesting depth, whose closing-tag name differs from
\* its opening-tag name makes parse raise the mismatched-tag error; parse then
\* returns no Component and no output text is generated.
C2_MismatchedClosingTagFails ==
  [][/\ (atClosingName /\ peekValue(0) # top.v.tagName)
          => /\ phase' = "failed"
             /\ error' = "Mismatched closing tag: expected " \o top.v.tagName
                         \o " but got " \o peekValue(0)
             /\ code' = ""
     /\ phase = "failed" => (phase' = "failed" /\ code' = "")]_vars

C2_Witness ==
  /\ phase = "failed"
  /\ StartsWith(error, "Mismatched closing tag: expected p but got div")
  /\ openElements >= 2
  /\ code = ""

(***************************************************************************)
(* C3  The Counter Component end to end.                                   *)
(***************************************************************************)
\* C3: compiling `@count = 0`, `!click = count++`,
\* `<btn @click=click>{count}</btn>` completes, and the output declares
\* [count, setCount] from useState(0), declares click as a zero-argument
\* function calling setCount(count + 1), and renders a button with
\* onClick={click} whose content interpolates {count}.
C3_CounterCompiles ==
  (input = CounterSource /\ phase \in {"done", "failed"}) =>
    /\ phase = "done"
    /\ Len(linesStarting("  const [count, setCount] = useState(0);")) = 1
    /\ Len(linesStarting("  const click = () => setCount(count + 1);")) = 1
    /\ Len(linesStarting("    <button onClick={click}>{count}</button>")) = 1

C3_Witness ==
  /\ input = CounterSource
  /\ Done
  /\ Len(linesStarting("    <button onClick={click}>{count}</button>")) = 1

(***************************************************************************)
(* C4  Derived names of the typed generator.                               *)
(***************************************************************************)
\* the line the naming rules give the declaration of a kind
namedLine(kind, n) ==
  CASE kind = "states" -> "  const [" \o n \o ", set" \o Cap(n) \o "] = useState"
    [] kind = "reducers" ->
         "  const [" \o n \o ", dispatch" \o Cap(n) \o "] = useReducer(" \o n \o "Reducer, "
    [] kind = "transitions" ->
         "  const [isPending" \o Cap(n) \o ", start" \o Cap(n) \o "Transition] = useTransition();"
    [] kind = "optimistics" -> "  const [" \o n \o ", add" \o Cap(n) \o "] = useOptimistic("
    [] kind = "actionStates" ->
         "  const [" \o n \o ", " \o n \o "Action, isPending" \o Cap(n) \o "] = useActionState("
    [] OTHER -> ""

NamedKinds == {"states", "reducers", "transitions", "optimistics", "actionStates"}

\* C4: for every declaration name n the typed generator derives the state
\* updater set+Cap(n), the reducer function n+Reducer, the dispatcher
\* dispatch+Cap(n), the pending flag isPending+Cap(n), the transition starter
\* start+Cap(n)+Transition, the optimistic updater add+Cap(n) and the action
\* wrapper n+Action, Cap upper-casing exactly the first character.
C4_DerivedNames ==
  (Done /\ Typed) =>
    \A kind \in NamedKinds :
      \A i \in 1..Len(Collection(ast, kind)) :
        /\ Len(linesStarting(namedLine(kind, ast[kind][i].name))) >= 1
        /\ kind = "reducers" =>
             Len(linesStarting("function " \o ast[kind][i].name
                               \o "Reducer(state, action) {")) >= 1

C4_Witness ==
  /\ Done
  /\ Typed
  /\ ast = Component(AllKinds, "userName")
  /\ Len(linesStarting("  const [isPendingUserName, startUserNameTransition] = ")) = 1
  /\ Len(linesStarting("  const [userName, userNameAction, isPendingUserName] = ")) = 1

(***************************************************************************)
(* C5, C6  The dependency array of a memo.                                 *)
(***************************************************************************)
\* C5: the dependency list of every memo value names no identifier twice and
\* lists the identifiers in first-seen order; `a + b.method(c)` gives
\* [a, b, c], and an identifier that is both an operand and a method-call
\* receiver appears once.
C5_DependenciesOnceInOrder ==
  Done =>
    \A i \in 1..Len(ast.memos) :
      LET deps == emittedDependencies(ast.memos[i].name, "useMemo") IN
      /\ NoDuplicates(deps)
      /\ IsSubsequence(deps, FreeIdentifiers(ast.memos[i].value))

\* the operand a of a + a.add(c) is listed a second time as the receiver
C5_DuplicateReceiver ==
  /\ Done
  /\ ast.memos # <<>>
  /\ ast.memos[1].value
       = BinaryOp(Identifier("a"), "+", MethodCall("a", "add", <<Identifier("c")>>))
  /\ emittedDependencies(ast.memos[1].name, "useMemo") = <<"a", "a", "c">>

\* C6: the dependency array emitted for a memo contains every free identifier
\* its value expression reads, in whatever expression kind it occurs:
\* binary operands, method-call receivers and arguments, property-access
\* receivers, array-literal elements and arrow-function bodies.
C6_DependenciesComplete ==
  Done =>
    \A i \in 1..Len(ast.memos) :
      LET deps == emittedDependencies(ast.memos[i].name, "useMemo") IN
      \A j \in 1..Len(FreeIdentifiers(ast.memos[i].value)) :
        SeqIncludes(deps, FreeIdentifiers(ast.memos[i].value)[j])

\* the memo of items.length is given the empty dependency array
C6_PropertyAccessDropped ==
  /\ Done
  /\ ast.memos # <<>>
  /\ ast.memos[1].value = PropertyAccess("items", "length")
  /\ emittedDependencies(ast.memos[1].name, "useMemo") = <<>>

(***************************************************************************)
(* C7  The dependency array of a cached callback.                          *)
(***************************************************************************)
\* C7: for every cached callback whose value is an arrow function the emitted
\* dependency array is the dependency list of the arrow body without the
\* arrow's own parameters; `(x) => x + total` gives a list with total and
\* without x, and `() => count + 1` gives [count].
C7_CallbackDependencies ==
  (Done /\ Typed) =>
    /\ \A i \in 1..Len(Collection(ast, "callbacks")) :
         LET callback == ast.callbacks[i] IN
         callback.value.type = "ArrowFunction" =>
           emittedDependencies(callback.name, "useCallback")
             = Without(extractDependencies(callback.value.body), callback.value.params)
    /\ ast = ExampleComponent =>
         /\ emittedDependencies("addTotal", "useCallback") = <<"total">>
         /\ emittedDependencies("increment", "useCallback") = <<"count">>

C7_Witness ==
  /\ Done
  /\ Typed
  /\ ast = ExampleComponent
  /\ Len(linesStarting("  const addTotal = useCallback((x) => x + total, [total]);")) = 1

(***************************************************************************)
(* C8  Event handlers.                                                     *)
(***************************************************************************)
RECURSIVE sourceText(_)
\* an expression written with neither an update nor an arrow function, as text
sourceText(expr) ==
  CASE expr.type = "Literal" -> expr.value
    [] expr.type = "Identifier" -> expr.name
    [] expr.type = "BinaryOp" ->
         sourceText(expr.left) \o " " \o expr.operator \o " " \o sourceText(expr.right)
    [] expr.type = "MethodCall" ->
         expr.object \o "." \o expr.method \o "("
         \o Join([i \in 1..Len(expr.args) |-> sourceText(expr.args[i])], ", ") \o ")"
    [] expr.type = "PropertyAccess" -> expr.object \o "." \o expr.property
    [] expr.type = "Array" ->
         "[" \o Join([i \in 1..Len(expr.elements) |-> sourceText(expr.elements[i])], ", ")
         \o "]"
    [] OTHER -> "?"

RECURSIVE plainlyWritten(_)
plainlyWritten(expr) ==
  CASE expr.type \in {"Literal", "Identifier", "PropertyAccess"} -> TRUE
    [] expr.type = "BinaryOp" -> plainlyWritten(expr.left) /\ plainlyWritten(expr.right)
    [] expr.type = "MethodCall" ->
         \A i \in 1..Len(expr.args) : plainlyWritten(expr.args[i])
    [] expr.type = "Array" ->
         \A i \in 1..Len(expr.elements) : plainlyWritten(expr.elements[i])
    [] OTHER -> FALSE

\* the function an event handler is to be lowered to
loweredHandler(handler) ==
  CASE handler.type = "Update" /\ handler.operator = "++" ->
         "() => set" \o Cap(handler.target) \o "(" \o handler.target \o " + 1)"
    [] handler.type = "Update" /\ handler.operator = "--" ->
         "() => set" \o Cap(handler.target) \o "(" \o handler.target \o " - 1)"
    [] handler.type = "Update" /\ handler.operator = "+=" ->
         "() => set" \o Cap(handler.target) \o "(" \o handler.target \o " + "
         \o sourceText(handler.value) \o ")"
    [] handler.type = "MethodCall" /\ handler.method = "push" ->
         "() => set" \o Cap(handler.object) \o "([..." \o handler.object \o ", "
         \o Join([i \in 1..Len(handler.args) |-> sourceText(handler.args[i])], ", ") \o "])"
    [] OTHER -> "() => " \o sourceText(handler)

\* an event handler the lowering rules speak of
loweringApplies(handler) ==
  CASE handler.type = "Update" ->
         handler.operator \in {"++", "--"} \/ plainlyWritten(Field(handler, "value"))
    [] OTHER -> plainlyWritten(handler)

\* C8: an event handler n++, n-- or n += v becomes a zero-argument function
\* calling set+Cap(n) with n + 1, n - 1 or n + v; a push on n becomes a
\* zero-argument function calling set+Cap(n) with [...n, args]; every other
\* handler expression is emitted verbatim inside a zero-argument function.
C8_EventHandlerLowering ==
  Done =>
    \A i \in 1..Len(ast.events) :
      loweringApplies(ast.events[i].handler) =>
        Len(linesStarting("  const " \o ast.events[i].name \o " = "
                          \o loweredHandler(ast.events[i].handler) \o ";")) >= 1

\* the plain generator writes the handler a.length as null
C8_PlainPropertyAccessIsNull ==
  /\ Done
  /\ ~Typed
  /\ ast.events # <<>>
  /\ ast.events[1].handler = PropertyAccess("a", "length")
  /\ Len(linesStarting("  const handle = () => null;")) = 1

(***************************************************************************)
(* C9  Each-loops.                                                         *)
(***************************************************************************)
RECURSIVE eachLoops(_)
RECURSIVE eachLoopsOfAll(_)
\* the each-loops of a markup tree, in the order they are generated
eachLoops(jsx) ==
  CASE jsx.type = "EachLoop" -> <<jsx>>
    [] jsx.type \in {"JSXElement", "JSXFragment"} -> eachLoopsOfAll(jsx.children)
    [] OTHER -> <<>>
eachLoopsOfAll(nodes) ==
  IF Len(nodes) = 0 THEN <<>> ELSE eachLoops(Head(nodes)) \o eachLoopsOfAll(Tail(nodes))

IsIdentifierChar(c) == IsIdentifierStart(c) \/ IsDigit(c)

RECURSIVE RefersTo(_, _, _)
\* the identifier occurs in text at or after from, as a whole word
RefersTo(text, identifier, from) ==
  LET i == IndexFrom(text, identifier, from) IN
  IF i = 0 THEN FALSE
  ELSE IF ~IsIdentifierChar(CharAt(text, i - 1))
          /\ ~IsIdentifierChar(CharAt(text, i + Len(identifier)))
  THEN TRUE
  ELSE RefersTo(text, identifier, i + 1)

\* the index of the line of the generated text that opens the mapping call
\* over a list, 0 when there is none
mappingLine(list) ==
  LET opens(i) == StartsWith(TrimStart(outputLines[i]), "{" \o list \o ".map((item")
  IN IF \E i \in 1..Len(outputLines) : opens(i)
     THEN CHOOSE i \in 1..Len(outputLines) : opens(i) /\ \A j \in 1..(i - 1) : ~opens(j)
     ELSE 0

\* the lines of the template generated inside the mapping call over a list
emittedTemplate(list) ==
  LET first == mappingLine(list) + 1
      closes(i) == Trim(outputLines[i]) = "))}"
      last == CHOOSE i \in first..Len(outputLines) :
                closes(i) /\ \A j \in first..(i - 1) : ~closes(j)
  IN SubSeq(outputLines, first, last - 1)

\* C9: an each-loop with variable v over L is generated as a mapping call
\* over L whose callback parameter is item, and every occurrence of v in the
\* template's interpolations is rewritten to item, so that for v other than
\* item the emitted template has no reference to v.
C9_EachLoopRewritesVariable ==
  Done =>
    \A i \in 1..Len(eachLoops(ast.jsx)) :
      LET loop == eachLoops(ast.jsx)[i] IN
      /\ mappingLine(loop.list) # 0
      /\ loop.item # "item" =>
           \A j \in 1..Len(emittedTemplate(loop.list)) :
             ~RefersTo(emittedTemplate(loop.list)[j], loop.item, 1)

\* {todo.text} of the template is generated as it is
C9_PropertyOfVariableKept ==
  /\ Done
  /\ eachLoops(ast.jsx) # <<>>
  /\ eachLoops(ast.jsx)[1].item = "todo"
  /\ Typed
  /\ emittedTemplate("list") = <<"        <li>{todo.text} {item}</li>">>

(***************************************************************************)
(* C10  The import line of the typed generator.                            *)
(***************************************************************************)
\* the hooks and the declaration collection each is imported for
HookOf ==
  [useState |-> "states", useReducer |-> "reducers", useTransition |-> "transitions",
   useContext |-> "contexts", useCallback |-> "callbacks", useRef |-> "refs",
   useEffect |-> "effects", useLayoutEffect |-> "layoutEffects", useMemo |-> "memos",
   useDeferredValue |-> "deferredValues", useOptimistic |-> "optimistics",
   useId |-> "ids", useSyncExternalStore |-> "syncs", useActionState |-> "actionStates",
   forwardRef |-> "handles", useImperativeHandle |-> "handles"]

\* the names between the braces of the first line of the generated text
importedNames ==
  LET first == outputLines[1]
      open == IndexFrom(first, "{ ", 1)
      close == IndexFrom(first, " }", 1)
  IN IF open = 0 THEN <<>> ELSE Split(SubSeq(first, open + 2, close - 1), ", ")

\* C10: the typed generator's import line from 'react' names a hook if and
\* only if the Component's collection for it is non-empty, and names React
\* alone when all of them are empty.
C10_ImportsMatchDeclarations ==
  (Done /\ Typed) =>
    /\ StartsWith(outputLines[1], "import React")
    /\ \A hook \in DOMAIN HookOf :
         SeqIncludes(importedNames, hook) <=> Len(Collection(ast, HookOf[hook])) > 0
    /\ (\A hook \in DOMAIN HookOf : Len(Collection(ast, HookOf[hook])) = 0)
         => outputLines[1] = "import React from 'react';"

C10_Witness ==
  /\ Done
  /\ Typed
  /\ Len(Collection(ast, "callbacks")) > 0
  /\ Len(ast.states) = 0
  /\ SeqIncludes(importedNames, "useCallback")
  /\ ~SeqIncludes(importedNames, "useState")

(***************************************************************************)
(* C11  The import line of the plain generator.                            *)
(***************************************************************************)
\* C11: the plain generator's output imports React plus exactly those of the
\* state, effect and memo hooks the Component uses: useState if and only if
\* there is a state declaration, useEffect if and only if there is an effect,
\* useMemo if and only if there is a memo.
C11_PlainImportsUsedHooks ==
  (Done /\ ~Typed) =>
    /\ StartsWith(outputLines[1], "import React")
    /\ \A hook \in {"useState", "useEffect", "useMemo"} :
         SeqIncludes(importedNames, hook) <=> Len(ast[HookOf[hook]]) > 0

\* a Component with no declaration at all imports the three hooks
C11_UnusedHooksImported ==
  /\ Done
  /\ ~Typed
  /\ ast.states = <<>> /\ ast.effects = <<>> /\ ast.memos = <<>>
  /\ importedNames = <<"useState", "useEffect", "useMemo">>

(***************************************************************************)
(* C12  The signature of the plain generator.                              *)
(***************************************************************************)
\* the parameter that destructures the declared prop names in their order
destructuredProps ==
  IF Len(ast.props) = 0 THEN ""
  ELSE "{ " \o Join([i \in 1..Len(ast.props) |-> ast.props[i].name], ", ") \o " }"

\* C12: the plain generator emits a component signature whose parameter
\* destructures exactly the declared prop names in declaration order
\* (`:label` gives `function Component({ label })`), and an empty parameter
\* list when there are no props.
C12_PlainSignatureDestructuresProps ==
  (Done /\ ~Typed) =>
    Len(linesStarting("function Component(" \o destructuredProps \o ") {")) = 1

\* the prop of `:label` is printed as the object it is
C12_PropPrintedAsObject ==
  /\ Done
  /\ ~Typed
  /\ input = ":label\n<p>{label}</p>"
  /\ Len(ast.props) = 1
  /\ Len(linesStarting("function Component({ [object Object] }) {")) = 1

(***************************************************************************)
(* C13  The order of the declaration blocks.                               *)
(***************************************************************************)
\* the kinds in the order their blocks are to appear in
KindOrder ==
  <<"states", "ids", "deferredValues", "optimistics", "syncs", "actionStates",
    "reducers", "transitions", "contexts", "callbacks", "refs", "handles",
    "memos", "effects", "layoutEffects", "events">>

\* the kinds the plain generator writes blocks for
PlainKinds == <<"states", "memos", "effects", "events">>

\* the entries the Component has of a kind, in insertion order
declared(kind) == IF kind \in DOMAIN ast THEN ast[kind] ELSE <<>>

\* text up to the first sep, and text after it
Before(text, sep) ==
  LET i == IndexFrom(text, sep, 1) IN IF i = 0 THEN text ELSE SubSeq(text, 1, i - 1)
After(text, sep) ==
  LET i == IndexFrom(text, sep, 1) IN IF i = 0 THEN "" ELSE Slice(text, i + Len(sep))

\* the lines of the component body among the lines of the generated text:
\* after the line that opens the component, before the return statement
componentBody(lines) ==
  LET opening == {i \in 1..Len(lines) :
                    StartsWith(lines[i], "function ") \/ StartsWith(lines[i], "const ")}
      header == CHOOSE i \in opening : \A j \in opening : j <= i
      returns == {i \in header..Len(lines) : lines[i] = "  return ("}
      return == CHOOSE i \in returns : \A j \in returns : i <= j
  IN SubSeq(lines, header + 1, return - 1)

\* the hook a right-hand side calls: its text before the first ( or <
calledHook(rhs) == Before(Before(rhs, "("), "<")

\* the block that the i-th line of the body opens: its kind and the key that
\* tells its entry, kind "none" for a line that opens no block
blockAt(body, i) ==
  LET l == body[i]
      none == [kind |-> "none", key |-> ""]
  IN IF StartsWith(l, "  const [")
     THEN LET hook == calledHook(After(l, "] = ")) IN
          IF hook \in DOMAIN HookOf
          THEN [kind |-> HookOf[hook], key |-> Before(Before(After(l, "  const ["), "]"), ",")]
          ELSE none
     ELSE IF StartsWith(l, "  const ")
     THEN LET hook == calledHook(After(l, " = ")) IN
          [kind |-> IF hook \in DOMAIN HookOf THEN HookOf[hook] ELSE "events",
           key |-> Before(After(l, "  const "), " = ")]
     ELSE IF l = "  useEffect(() => {" THEN [kind |-> "effects", key |-> body[i + 1]]
     ELSE IF l = "  useLayoutEffect(() => {"
     THEN [kind |-> "layoutEffects", key |-> body[i + 1]]
     ELSE IF StartsWith(l, "    ") /\ CharAt(l, Len(l)) = ","
     THEN [kind |-> "handles", key |-> Before(Slice(l, 5), ":")]
     ELSE none

\* the blocks of the generated body, in the order they stand in
blocksOf(body) ==
  SelectSeq([i \in 1..Len(body) |-> blockAt(body, i)], LAMBDA b : b.kind # "none")

emittedBlocks == blocksOf(componentBody(outputLines))

\* the key of an entry of a kind
blockKey(kind, entry) ==
  CASE kind = "transitions" -> "isPending" \o Cap(entry.name)
    [] kind \in {"effects", "layoutEffects"} ->
         "    " \o (IF entry.functionName = "log" THEN "console.log" ELSE entry.functionName)
         \o "(" \o Join([i \in 1..Len(entry.args) |-> sourceText(entry.args[i])], ", ")
         \o ");"
    [] OTHER -> entry.name

RECURSIVE blocksInOrder(_)
\* one block per entry: kind after kind, the entries of a kind as inserted
blocksInOrder(kinds) ==
  IF Len(kinds) = 0 THEN <<>>
  ELSE [i \in 1..Len(declared(Head(kinds))) |->
          [kind |-> Head(kinds), key |-> blockKey(Head(kinds), declared(Head(kinds))[i])]]
       \o blocksInOrder(Tail(kinds))

\* C13: in generated output the declaration blocks appear grouped by kind in
\* the fixed order state, id, deferred, optimistic, sync, action-state,
\* reducer, transition, context, callback, ref, handle, memo, effect,
\* layout-effect, event, whatever the order of the declarations in the
\* source, and the entries of one kind appear in their insertion order, one
\* emitted line or block of lines per entry.
C13_BlocksInKindOrder ==
  Done => emittedBlocks = blocksInOrder(IF Typed THEN KindOrder ELSE PlainKinds)

C13_Witness ==
  /\ Done
  /\ Typed
  /\ ast = TwoOfEach(AllKinds, "total", "count")
  /\ Len(emittedBlocks) = 32
  /\ emittedBlocks[1] = [kind |-> "states", key |-> "total"]
  /\ emittedBlocks[2] = [kind |-> "states", key |-> "count"]
  /\ emittedBlocks[3].kind = "ids"
  /\ emittedBlocks[32] = [kind |-> "events", key |-> "count"]

(***************************************************************************)
(* C14  Termination of tokenize.                                           *)
(***************************************************************************)
\* how many tokens of a type a token sequence has
CountOf(toks, type) == Cardinality({i \in 1..Len(toks) : toks[i].type = type})

\* C14: tokenize terminates on every input string: each loop iteration
\* consumes at least one character or raises, the cursor never goes further
\* than the end of a literal left open, and whenever tokenize returns, the
\* token sequence contains exactly one EOF token and that token is the last
\* element.
C14_TokenizeTerminates ==
  [][phase = "tokenize" =>
       /\ charPosition <= Len(input) + 2
       /\ phase' \in {"tokenize", "failed", "parse"}
       /\ phase' = "tokenize" => charPosition' > charPosition
       /\ phase' = "parse" =>
            /\ CountOf(tokens', "EOF") = 1
            /\ tokens'[Len(tokens')].type = "EOF"]_vars

\* tokenize has returned from a text that ends inside a string literal, at an
\* escape
C14_Witness ==
  /\ input = "@s = 'a\\"
  /\ phase = "parse"
  /\ charPosition = Len(input) + 2
  /\ Len(tokens) = 5
  /\ tokens[4].type = "STRING"
  /\ tokens[5].type = "EOF"

(***************************************************************************)
(* C15  Operators of two characters.                                       *)
(***************************************************************************)
\* the operators of two characters and the one token each is to give
LongOperators ==
  ("::" :> "COLON_TYPE") @@ ("++" :> "INCREMENT") @@ ("--" :> "DECREMENT")
  @@ ("+=" :> "PLUS_ASSIGN") @@ ("=>" :> "ARROW")

\* the main loop of the tokenizer stands at an operator
atOperator(op) ==
  /\ Lexing
  /\ charPosition + Len(op) <= Len(input)
  /\ SubSeq(input, charPosition + 1, charPosition + Len(op)) = op

\* C15: tokenize matches longer operators before their prefixes at every
\* position: `::` yields one COLON_TYPE, `++` one INCREMENT, `--` one
\* DECREMENT, `+=` one PLUS_ASSIGN and `=>` one ARROW, never the token of the
\* first character followed by another token.
C15_LongestOperatorFirst ==
  [][\A op \in DOMAIN LongOperators :
       atOperator(op) =>
         /\ phase' = "tokenize"
         /\ charPosition' = charPosition + Len(op)
         /\ Len(tokens') = Len(tokens) + 1
         /\ tokens'[Len(tokens')].type = LongOperators[op]]_vars

\* the => of `s => s + 1` has become an ASSIGN and a GT
C15_ArrowSplit ==
  /\ input = "!f = s => s + 1"
  /\ phase # "tokenize"
  /\ \E i \in 1..(Len(tokens) - 1) :
       /\ tokens[i].type = "ASSIGN"
       /\ tokens[i + 1].type = "GT"
       /\ tokens[i + 1].column = tokens[i].column + 1
  /\ CountOf(tokens, "ARROW") = 0

(***************************************************************************)
(* C16  The sigils of the declarations.                                    *)
(***************************************************************************)
\* the sigils and the token kind each is to give
SigilTokens ==
  ("@" :> "STATE") @@ (":" :> "PROP") @@ ("$" :> "EFFECT") @@ ("$$" :> "LAYOUT_EFFECT")
  @@ ("%" :> "MEMO") @@ ("!" :> "EVENT") @@ ("^" :> "CALLBACK") @@ ("~" :> "HANDLE")
  @@ ("#" :> "REF") @@ ("&" :> "CONTEXT") @@ ("*" :> "ID")

\* the text starts with the sigil and a name
declares(text, sigil) ==
  StartsWith(text, sigil) /\ IsIdentifierStart(CharAt(text, Len(sigil) + 1))

\* C16: tokenize maps every declaration sigil to its own token kind, followed
\* by the IDENTIFIER token of the name: @ to STATE, : to PROP, $ to EFFECT,
\* $$ to a single LAYOUT_EFFECT, % to MEMO, ! to EVENT, ^ to CALLBACK,
\* ~ to HANDLE, # to REF, & to CONTEXT and * to ID.
C16_SigilTokens ==
  \A sigil \in DOMAIN SigilTokens :
    (declares(input, sigil) /\ phase # "tokenize") =>
      /\ Len(tokens) >= 2
      /\ tokens[1].type = SigilTokens[sigil]
      /\ tokens[2].type = "IDENTIFIER"

\* $$measure gives two EFFECT tokens
C16_LayoutEffectIsTwoEffects ==
  /\ input = "$$measure(el)"
  /\ phase # "tokenize"
  /\ tokens[1].type = "EFFECT"
  /\ tokens[2].type = "EFFECT"
  /\ tokens[3] = [type |-> "IDENTIFIER", value |-> "measure", line |-> 1, column |-> 3]

(***************************************************************************)
(* C17  Characters the tokenizer does not know.                            *)
(***************************************************************************)
\* the characters a text is written in outside its string literals
Lexical(c) ==
  \/ c \in {" ", "\t", "\n", "\"", "'", "_"}
  \/ Includes("@$%:!?|&+-=*/.,(){}[]<>", c)
  \/ IsDigit(c)
  \/ IsLetter(c)

\* least member of a set of indices, 0 for the empty set
Least(indices) ==
  IF indices = {} THEN 0 ELSE CHOOSE i \in indices : \A j \in indices : i <= j

\* the index of the quote that closes the literal opened at index open, 0 when
\* the literal runs to the end of the text: the first quote of the same kind
\* with an even number of escaping characters right before it
closingQuote(text, open) ==
  LET escapes(j) == Cardinality({k \in (open + 1)..(j - 1) :
                                   \A m \in k..(j - 1) : CharAt(text, m) = "\\"})
  IN Least({j \in (open + 1)..Len(text) :
              CharAt(text, j) = CharAt(text, open) /\ escapes(j) % 2 = 0})

RECURSIVE firstForeign(_, _)
\* the index of the first character at or after from, outside the string
\* literals, that a text is not written in; 0 when there is none
firstForeign(text, from) ==
  LET quote == Least({i \in from..Len(text) : CharAt(text, i) \in {"\"", "'"}})
      foreign == Least({i \in from..Len(text) : ~Lexical(CharAt(text, i))})
  IN IF foreign # 0 /\ (quote = 0 \/ foreign < quote) THEN foreign
     ELSE IF quote = 0 \/ closingQuote(text, quote) = 0 THEN 0
     ELSE firstForeign(text, closingQuote(text, quote) + 1)

\* the line and the column of an index of a text, both counted from 1
lineOf(text, index) == 1 + Cardinality({i \in 1..(index - 1) : CharAt(text, i) = "\n"})
columnOf(text, index) ==
  index - Least({i \in 0..(index - 1) :
                   \A j \in (i + 1)..(index - 1) : CharAt(text, j) # "\n"})

atStatement == In("parse") /\ top.pc = "statement" /\ ~isAtEnd

\* the token kinds a statement starts with: the sigils of the declarations
\* and the < that opens the markup
StatementOpeners == {"PROP", "STATE", "EFFECT", "MEMO", "EVENT", "LT"}

\* C18: when the next significant token at a statement start is not one of
\* the declaration sigils or a markup-opening <, parse raises an error naming
\* that token's kind and line, stops at that first error, and returns no
\* partial Component: nothing is generated.
C18_UnexpectedTokenRaises ==
  [][/\ (atStatement /\ peekType(0) \notin StatementOpeners) =>
          /\ phase' = "failed"
          /\ error' = "Unexpected token: " \o tokens[position + 1].type
                      \o " at line " \o ToString(tokens[position + 1].line)
          /\ code' = ""
     /\ phase = "failed" => (phase' = "failed" /\ code' = "")]_vars

\* a state is declared, then a name stands where a statement starts
C18_Witness ==
  /\ input = "@a = 1\n\nb = 2"
  /\ phase = "failed"
  /\ error = "Unexpected token: IDENTIFIER at line 3"
  /\ Len(ast.states) = 1
  /\ code = ""

(***************************************************************************)
(* C19  The modifiers of a state declaration.                              *)
(***************************************************************************)
\* the collection the declarations with a modifier go to
ModifierCollection ==
  ("reducer" :> "reducers") @@ ("transition" :> "transitions")
  @@ ("deferred" :> "deferredValues") @@ ("optimistic" :> "optimistics")

\* the modifier a text that is one state declaration has right after the
\* name, "" when it has none
modifierOf(text) ==
  LET afterName == After(text, ":") IN
  IF ~Includes(Before(text, " "), ":") THEN "" ELSE Before(afterName, " ")

\* the collection the one declaration of a text is to go to
collectionOf(text) ==
  IF modifierOf(text) = "" THEN "states" ELSE ModifierCollection[modifierOf(text)]

\* C19: a state declaration that carries a modifier right after its name is
\* routed to that modifier's collection only: `@n:reducer = ...` adds exactly
\* one entry to reducers, `@n:transition` one to transitions,
\* `@n:deferred = src` one to deferredValues with sourceValue,
\* `@n:optimistic = {state, updateFn}` one to optimistics; none of them adds
\* an entry to states, and an unmodified `@n = v` adds exactly one entry to
\* states and to no other collection.
C19_ModifierRoutesDeclaration ==
  (input \in StateCorpus /\ phase \in {"generate", "done", "failed"}) =>
    /\ phase # "failed"
    /\ \A kind \in AllKinds :
         Len(declared(kind)) = IF kind = collectionOf(input) THEN 1 ELSE 0
    /\ declared(collectionOf(input))[1].name = "n"
    /\ modifierOf(input) = "deferred" =>
         declared("deferredValues")[1].sourceValue = Identifier("src")

\* @n:transition is refused where the = of a state is looked for
C19_TransitionRefused ==
  /\ input = "@n:transition"
  /\ phase = "failed"
  /\ error = "Expected ASSIGN but got PROP"
  /\ ast = emptyAst

(***************************************************************************)
(* C20  Chains of binary operators.                                        *)
(***************************************************************************)
RECURSIVE rightNested(_, _)
\* the tree of the chain from its i-th identifier on: the identifier alone,
\* or the identifier, the operator and the tree of all that follows
rightNested(ops, i) ==
  IF i > Len(ops) THEN Identifier(ChainNames[i])
  ELSE BinaryOp(Identifier(ChainNames[i]), ops[i], rightNested(ops, i + 1))

\* C20: for every chain of identifiers joined by binary operators (+, -, *,
\* /), parseExpression returns a right-nested tree: the left operand of every
\* BinaryOp is a single Identifier and the right operand is the parse of the
\* whole remainder, whatever the operators are (`a - b - c` gives
\* a - (b - c), `a * b + c` gives a * (b + c)); no precedence or
\* left-associativity is applied.
C20_ChainsAreRightNested ==
  phase \in {"generate", "done", "failed"} =>
    \A ops \in Chains :
      input = ChainSource(ops) =>
        /\ phase # "failed"
        /\ ast.memos = <<[name |-> "r", type |-> NullNode, value |-> rightNested(ops, 1)]>>

C20_Witness ==
  /\ input = "%r = a * b + c"
  /\ Done
  /\ ast.memos[1].value
       = BinaryOp(Identifier("a"), "*", BinaryOp(Identifier("b"), "+", Identifier("c")))

(***************************************************************************)
(* C21  The val attribute.                                                 *)
(***************************************************************************)
RECURSIVE elements(_)
RECURSIVE elementsOfAll(_)
\* the elements of a markup tree, the templates of its loops among them
elements(jsx) ==
  CASE jsx.type = "JSXElement" -> <<jsx>> \o elementsOfAll(jsx.children)
    [] jsx.type = "JSXFragment" -> elementsOfAll(jsx.children)
    [] jsx.type = "EachLoop" -> elements(jsx.template)
    [] OTHER -> <<>>
elementsOfAll(nodes) ==
  IF Len(nodes) = 0 THEN <<>> ELSE elements(Head(nodes)) \o elementsOfAll(Tail(nodes))

\* the values of the val attributes of a markup tree
valValues(jsx) ==
  LET valsOf(element) ==
        LET vals == SelectSeq(element.attributes,
                              LAMBDA attr : attr.name = "val" /\ attr.value.type # "EventHandler")
        IN [i \in 1..Len(vals) |-> vals[i].value]
  IN Flatten([i \in 1..Len(elements(jsx)) |-> valsOf(elements(jsx)[i])])

\* the text of a value attribute, and of the change handler that goes with it
valueAttribute(text) == "value={" \o text \o "}"
changeHandler(x) == " onChange={(e) => set" \o Cap(x) \o "(e.target.value)}"

\* some line of the generated text holds the text
Emitted(text) == \E i \in 1..Len(outputLines) : Includes(outputLines[i], text)

\* C21: in both the plain and the typed generator, a val attribute whose
\* value is a bare identifier x is emitted as the pair value={x} and an
\* onChange handler calling set+Cap(x) with e.target.value; a val attribute
\* with any other expression is emitted as a value attribute only.
C21_ValIsTwoWayBinding ==
  Done =>
    \A i \in 1..Len(valValues(ast.jsx)) :
      LET value == valValues(ast.jsx)[i]
          text == valueAttribute(expressionToJS(value, Typed))
      IN IF value.type = "Identifier"
         THEN Emitted(text \o changeHandler(value.name))
         ELSE Emitted(text) /\ ~Emitted(text \o " onChange=")

\* the plain generator writes the value of a bound input and no handler
C21_PlainValHasNoHandler ==
  /\ Done
  /\ ~Typed
  /\ input = "@q = 0\n<input val={q} />"
  /\ valValues(ast.jsx) = <<Identifier("q")>>
  /\ Emitted("<input value={q} />")
  /\ ~Emitted("onChange")

(***************************************************************************)
(* C22  Tag names.                                                         *)
(***************************************************************************)
\* the name a tag is to be emitted under: its alias, or the name itself
emittedName(tagName) ==
  IF tagName \in DOMAIN htmlTagNames(Typed) THEN htmlTagNames(Typed)[tagName] ELSE tagName

\* the name of the tag a line opens, and of the tag it closes at its end
openedName(text) ==
  LET stops == {i \in 2..Len(text) : SubSeq(text, i, i) \in {" ", ">", "/"}}
  IN SubSeq(text, 2, Least(stops) - 1)
closedName(text) == SubSeq(text, LastIndexOf(text, "<", Len(text)) + 2, Len(text) - 1)

RECURSIVE tagsMatch(_, _, _)
\* from the i-th line on, every closing tag carries the name of the tag it
\* closes; open holds the names of the tags not closed yet, the last first
tagsMatch(lines, i, open) ==
  IF i > Len(lines) THEN open = <<>>
  ELSE LET text == Trim(lines[i]) IN
       IF ~StartsWith(text, "<") \/ SubSeq(text, Len(text), Len(text)) # ">"
       THEN tagsMatch(lines, i + 1, open)
       ELSE IF StartsWith(text, "</")
       THEN /\ open # <<>>
            /\ Head(open) = closedName(text)
            /\ tagsMatch(lines, i + 1, Tail(open))
       ELSE IF SubSeq(text, Len(text) - 1, Len(text)) = "/>"
       THEN tagsMatch(lines, i + 1, open)
       ELSE IF Includes(text, "</")
       THEN openedName(text) = closedName(text) /\ tagsMatch(lines, i + 1, open)
       ELSE tagsMatch(lines, i + 1, <<openedName(text)>> \o open)

\* C22: every tag name that is not a key of the alias table is emitted
\* unchanged as the element name, btn is emitted as button, and the opening
\* and the closing tag of one emitted element carry the same name.
C22_TagNamesPassThrough ==
  Done =>
    /\ \A i \in 1..Len(elements(ast.jsx)) :
         LET element == elements(ast.jsx)[i]
             name == emittedName(element.tagName)
         IN /\ element.tagName = "btn" => name = "button"
            /\ Emitted("<" \o name \o " ") \/ Emitted("<" \o name \o ">")
            /\ Len(element.children) > 0 => Emitted("</" \o name \o ">")
    /\ tagsMatch(outputLines, 1, <<>>)

\* a tag named as a property every object inherits is emitted as the text of
\* that property
C22_InheritedKeyIsEmitted ==
  /\ Done
  /\ input = "<toString />"
  /\ elements(ast.jsx)[1].tagName = "toString"
  /\ Emitted("<function toString() { [native code] } />")
  /\ ~Emitted("<toString")

(***************************************************************************)
(* C23  Component names.                                                   *)
(***************************************************************************)
RECURSIVE PascalCaseFrom(_, _)
\* the PascalCase form of a name: its separators (hyphen, underscore) left
\* out, and in upper case every character the flag is up for, which is the
\* first one and every one after a separator
PascalCaseFrom(name, raised) ==
  IF Len(name) = 0 THEN ""
  ELSE IF CharAt(name, 1) \in {"-", "_"} THEN PascalCaseFrom(Slice(name, 2), TRUE)
  ELSE (IF raised THEN toUpperCase(CharAt(name, 1)) ELSE CharAt(name, 1))
       \o PascalCaseFrom(Slice(name, 2), FALSE)

PascalCase(name) == PascalCaseFrom(name, TRUE)

\* the base name of the file an adapter was given
baseName == basename(filePath, getDslExtension(filePath))

\* C23: the build adapters derive the component name from the file base name
\* as its PascalCase form: counter gives Counter, user-profile gives
\* UserProfile and my_component gives MyComponent.
C23_ComponentNameIsPascalCase ==
  /\ PascalCase("counter") = "Counter"
  /\ PascalCase("user-profile") = "UserProfile"
  /\ PascalCase("my_component") = "MyComponent"
  /\ phase = "generate" /\ filePath \in FilePaths =>
       options.componentName = PascalCase(baseName)

\* compile and the loader keep the underscore and the lower case after it
C23_UnderscoreKept ==
  /\ phase = "generate"
  /\ filePath = "my_component.jsx.dsl"
  /\ baseName = "my_component"
  /\ options.componentName = "My_component"

(***************************************************************************)
(* C24  The markup tree of a Component.                                    *)
(***************************************************************************)
\* the names of the tags the token array opens, in the order of the source
openedTags(toks) ==
  LET names == SelectSeq([i \in 1..Len(toks) |-> i],
                         LAMBDA i : i > 1 /\ toks[i].type = "IDENTIFIER"
                                          /\ toks[i - 1].type = "LT")
  IN [n \in 1..Len(names) |-> toks[names[n]].value]

\* parse has returned a Component
Parsed == phase \in {"generate", "done"}

\* C24: every Component returned by a successful parse holds exactly one
\* markup tree: its jsx field is a single non-null node, where several
\* consecutive top-level elements are wrapped in one fragment in source
\* order; this holds also for sources that contain only declarations.
C24_ExactlyOneMarkupTree ==
  Parsed =>
    /\ ast.jsx # NullNode
    /\ ast.jsx.type \in {"JSXElement", "JSXFragment"}
    /\ ast.jsx.type = "JSXElement" => SeqIncludes(openedTags(tokens), ast.jsx.tagName)
    /\ ast.jsx.type = "JSXFragment" =>
         /\ Len(ast.jsx.children) > 1
         /\ \A i \in 1..Len(ast.jsx.children) : ast.jsx.children[i].type = "JSXElement"
         /\ IsSubsequence([i \in 1..Len(ast.jsx.children) |-> ast.jsx.children[i].tagName],
                          openedTags(tokens))

\* a source of declarations alone gives a Component without a markup tree
C24_DeclarationsAloneHaveNoMarkup ==
  /\ Done
  /\ input = "@n = v"
  /\ Len(ast.states) = 1
  /\ ast.jsx = NullNode
  /\ Emitted("<div />")

(***************************************************************************)
(* C25  The token cursor.                                                  *)
(***************************************************************************)
\* the parser looks two tokens ahead: at a `<` among the children of an
\* element, to tell a closing tag from a loop and from a nested element
atLookahead ==
  In("parseJSXElement") /\ top.pc = "children" /\ peekType(0) = "LT"

\* the cursor is at the last of the positions past the end that are told
\* apart, from where the next position counted is the first of them again
atFold == position = Len(tokens) + MaxOvershoot

\* C25: during any run of parse the token cursor never rewinds: its position
\* is non-decreasing from one step to the next, every change is an increment
\* by exactly one, and lookahead (peek with an offset) never changes it: the
\* step that looks two tokens ahead and finds no closing tag leaves the
\* cursor where it is.
C25_CursorNeverRewinds ==
  [][phase = "parse" =>
       /\ \/ position' = position
          \/ position' = position + 1
          \/ atFold /\ position' = Len(tokens)
       /\ atLookahead /\ peekType(1) # "SLASH" => position' = position]_vars

\* the cursor has moved on and stands where the parser looks two tokens
\* ahead, at the loop of the list
C25_Witness ==
  /\ input = TodoSource
  /\ atLookahead
  /\ peekType(1) = "IDENTIFIER"
  /\ peekValue(1) = "each"
  /\ position > 0
  /\ tokens[position + 1].type = "LT"

(***************************************************************************)
(* C26  Literals.                                                          *)
(***************************************************************************)
\* parseExpression is about to read an expression that starts with a number
\* or a string
atLiteral ==
  In("parseExpression") /\ top.pc = "start" /\ peekType(0) \in {"NUMBER", "STRING"}

\* the Literal node of the token under the cursor
literalUnderCursor ==
  Literal(IF peekType(0) = "NUMBER" THEN peekValue(0) ELSE "\"" \o peekValue(0) \o "\"")

\* C26: when an expression starts with a number or string literal,
\* parseExpression consumes exactly that one token and returns the Literal
\* node: a following operator is not absorbed into the expression, so for a
\* declaration value written `1 + a` the tokens `+ a` remain for the caller.
C26_LiteralPassthrough ==
  [][atLiteral =>
       /\ position' = position + 1
       /\ stack' = Tail(stack)
       /\ ret' = literalUnderCursor
       /\ phase' = "parse"]_vars

\* the state n of `@n = 1 + a` has the value 1, and the `+` left over is
\* what the statement loop of parse refuses
C26_Witness ==
  /\ input = "@n = 1 + a"
  /\ phase = "failed"
  /\ ast.states = <<[name |-> "n", type |-> NullNode, initialValue |-> Literal("1")]>>
  /\ peekType(0) = "PLUS"
  /\ peekValue(1) = "a"
  /\ error = "Unexpected token: PLUS at line 1"

(***************************************************************************)
(* C27  Reducer functions.                                                 *)
(***************************************************************************)
\* the function generated for a reducer is in the lines: its head, the switch,
\* one case per action in declaration order, each returning a text that does
\* not name the first parameter of its handler, and the default
reducerFunctionIn(lines, reducer) ==
  LET heads == {k \in 1..Len(lines) :
                  lines[k] = "function " \o reducer.name \o "Reducer(state, action) {"}
      k == Least(heads)
      n == Len(reducer.actions)
      returned(j) ==
        LET prefix == "    case '" \o reducer.actions[j].name \o "': return "
        IN IF StartsWith(lines[k + 1 + j], prefix) /\ EndsWith(lines[k + 1 + j], ";")
           THEN SubSeq(lines[k + 1 + j], Len(prefix) + 1, Len(lines[k + 1 + j]) - 1)
           ELSE Null
  IN /\ heads # {}
     /\ Len(lines) >= k + 2 + n
     /\ lines[k + 1] = "  switch (action.type) {"
     /\ \A j \in 1..n :
          LET handler == reducer.actions[j].handler IN
          /\ returned(j) # Null
          /\ (handler.type = "ArrowFunction" /\ Len(handler.params) > 0)
               => (handler.params[1] # "state"
                     => ~RefersTo(returned(j), handler.params[1], 1))
     /\ lines[k + 2 + n] = "    default: return state;"

\* C27: for every reducer n, the generated function nReducer(state, action)
\* has one case per action in declaration order followed by
\* `default: return state`, and each case returns the handler's body with
\* every occurrence of the handler's first parameter replaced by state, so
\* that no case body references the handler's parameter name.
C27_ReducerCasesUseState ==
  (Done /\ Typed) =>
    \A i \in 1..Len(declared("reducers")) :
      reducerFunctionIn(outputLines, declared("reducers")[i])

\* the parameter of a handler is left standing where it is the receiver of
\* a method call
C27_ReceiverNotReplaced ==
  /\ Done
  /\ Typed
  /\ ast = ReducerComponent(MethodCall("a", "push", <<Identifier("c")>>))
  /\ Emitted("    case 'increment': return state + 1;")
  /\ Emitted("    case 'apply': return a.push(c);")

(***************************************************************************)
(* C28  Token positions.                                                   *)
(***************************************************************************)
\* the tokenizer's step adds a token; the token starts at the character the
\* cursor is at, whitespace being skipped in steps of its own
addsToken == phase = "tokenize" /\ Len(tokens') = Len(tokens) + 1
addedToken == tokens'[Len(tokens')]

\* C28: every token's recorded line and column are the 1-based position of
\* the token's first character in the source text, for all token kinds:
\* one-character tokens, two-character operators, numbers, quoted strings,
\* identifiers, NEWLINE and EOF.
C28_TokenPositions ==
  [][addsToken =>
       /\ addedToken.line = lineOf(input, charPosition + 1)
       /\ addedToken.column = columnOf(input, charPosition + 1)]_vars

\* a string that starts in column 1 is recorded in column 3
C28_StringMisplaced ==
  /\ input = "\"a#b\" ~"
  /\ Len(tokens) >= 1
  /\ tokens[1] = [type |-> "STRING", value |-> "a#b", line |-> 1, column |-> 3]
  /\ columnOf(input, 1) = 1

(***************************************************************************)
(* C29  The identifiers a component binds.                                 *)
(***************************************************************************)
\* the names the Component declares, collection after collection; effects
\* carry the name of the function they call and declare none
declaredNames ==
  LET namesOf(kind) == [i \in 1..Len(declared(kind)) |-> declared(kind)[i].name]
      named == SelectSeq(KindOrder, LAMBDA kind : kind \notin {"effects", "layoutEffects"})
  IN namesOf("props") \o Flatten([k \in 1..Len(named) |-> namesOf(named[k])])

\* the identifiers a line of the component body binds: those of the pattern
\* of `const [a, b] = ...`, or the one of `const a = ...`
boundBy(text) ==
  IF StartsWith(text, "  const [") THEN Split(Before(After(text, "  const ["), "]"), ", ")
  ELSE IF StartsWith(text, "  const ") THEN <<Before(After(text, "  const "), " ")>>
  ELSE <<>>

\* the identifiers the signature of the component destructures its props into
boundBySignature(lines) ==
  LET opening == {i \in 1..Len(lines) :
                    StartsWith(lines[i], "function ") \/ StartsWith(lines[i], "const ")}
      header == lines[CHOOSE i \in opening : \A j \in opening : j <= i]
  IN IF Includes(header, "({ ") THEN Split(Before(After(header, "({ "), " }"), ", ")
     ELSE <<>>

\* the identifiers the generated component binds, in the order of the text
boundNames(lines) ==
  LET body == componentBody(lines)
  IN boundBySignature(lines) \o Flatten([i \in 1..Len(body) |-> boundBy(body[i])])

\* C29: within one generated component, all identifiers bound by
\* declarations (declared names and synthesized auxiliary names such as
\* updaters, dispatchers, pending flags and action wrappers) are pairwise
\* distinct whenever the declaration names are pairwise distinct across all
\* collections.
C29_BoundNamesDistinct ==
  (Done /\ NoDuplicates(declaredNames)) => NoDuplicates(boundNames(outputLines))

\* the states count and Count share the updater setCount
C29_UpdaterBoundTwice ==
  /\ Done
  /\ Typed
  /\ ast = TwoOfEach({"states"}, "count", "Count")
  /\ NoDuplicates(declaredNames)
  /\ boundNames(outputLines) = <<"count", "setCount", "Count", "setCount">>

(***************************************************************************)
(* C30  The updaters the generated handlers call.                          *)
(***************************************************************************)
\* the names of the updaters a text calls: every whole word that begins with
\* set, goes on, and is followed by an opening parenthesis
updaterCalls(text) ==
  LET starts == {i \in 1..(Len(text) - 2) :
                   /\ SubSeq(text, i, i + 2) = "set"
                   /\ ~IsIdentifierChar(CharAt(text, i - 1))
                   /\ CharAt(text, i - 1) # "."}
      endOf(i) == Least({j \in (i + 3)..Len(text) : ~IsIdentifierChar(CharAt(text, j))})
  IN {SubSeq(text, i, endOf(i) - 1) :
        i \in {s \in starts : endOf(s) > s + 3 /\ CharAt(text, endOf(s)) = "("}}

\* the names of the updaters the lines call
updaterCallsOfAll(lines) == UNION {updaterCalls(lines[i]) : i \in 1..Len(lines)}

\* the updaters of the states the Component declares
declaredUpdaters == {"set" \o Cap(ast.states[i].name) : i \in 1..Len(ast.states)}

\* C30: every updater call (set+Cap(x)) that the generator emits in an event
\* handler or in a val two-way binding names the updater of a state x that is
\* declared in the same Component; an update expression, a push call or a val
\* binding on a name that is not a declared state never produces a call to an
\* undeclared updater.
C30_UpdaterCallsNameDeclaredStates ==
  Done => updaterCallsOfAll(outputLines) \subseteq declaredUpdaters

\* an input bound to a name no state declares calls the updater of that name
C30_UndeclaredUpdaterCalled ==
  /\ Done
  /\ Typed
  /\ input = "<input val={draft} />"
  /\ ast.states = <<>>
  /\ updaterCallsOfAll(outputLines) = {"setDraft"}

====
